---- MODULE Spec2Model ----
(***************************************************************************)
(* The v3 onion-service client core of src/tor/src/or/hs_client.c as a     *)
(* state machine: descriptor fetch scheduling, parked SOCKS streams, the   *)
(* introduction circuit and the rendezvous circuit, the intro-point        *)
(* failure cache and the NEWNYM purge.  Every callback of the file runs to *)
(* completion (single-threaded event loop), so each one is one action.     *)
(***************************************************************************)
EXTENDS Integers, Sequences, FiniteSets, TLC

(***************************************************************************)
(* Bounds of the model.                                                    *)
(***************************************************************************)
\* Slots of the connection array that may hold a directory connection.
MaxDirConns == 2
\* RELAY_EARLY cells an introduction circuit has left when it is launched.
MaxRelayEarly == 1
\* Streams followed together with the circuit pair.
MaxCircStreams == 1
\* Reachability failures noted for one intro point while the selection of
\* intro points is followed.
MaxUnreachableCount == 4
\* Time periods that begin after the first.
MaxPeriod == 1

(***************************************************************************)
(* Identities and key material.  Keys are opaque names; equality of names  *)
(* is byte equality (ed25519_pubkey_eq, fast_memneq).                      *)
(***************************************************************************)
Services == {"s1", "s2"}
\* edge_conn->hs_ident == NULL: a stream that is not a v3 onion stream.
NoIdent == "NULL"
\* An all-zero key: a field of an hs_ident that was never filled in.
ZeroKey == "zero"
Cookies == {"c1", "c2"}
CookieRank(c) == IF c = "c1" THEN 1 ELSE 2
ServerPks == {"Y"}
DirIds == 1..MaxDirConns
StreamOrder == <<"t1", "t2", "t3">>
StreamIds == {StreamOrder[i] : i \in 1..Len(StreamOrder)}

\* An intro point of a decoded descriptor (hs_desc_intro_point_t): the
\* authentication key, the encryption key, the legacy identity digest of
\* its link specifiers, and whether its link specifiers translate to an
\* extend_info_t.
IP(a, e, l, x) == [auth_key |-> a, enc_key |-> e, legacy_id |-> l, lspecs_ok |-> x]

\* The descriptors a service may publish: desc->encrypted_data.intro_points.
DescTwo == <<IP("a1", "e1", "l1", TRUE), IP("a2", "e2", "l2", TRUE)>>
DescRotated == <<IP("a1", "e3", "l1", TRUE)>>
DescNoIntro == <<>>
AuthKeys == {"a1", "a2"}

\* hs_get_time_period_num() and hs_build_blinded_pubkey(): the blinded key
\* is a function of the identity key and the time period.
BlindedKey(sid, tp) == <<"blinded", sid, tp>>

(***************************************************************************)
(* Fetch status codes (hs_client_fetch_status_t).                          *)
(***************************************************************************)
FETCH_ERROR == "HS_CLIENT_FETCH_ERROR"
FETCH_LAUNCHED == "HS_CLIENT_FETCH_LAUNCHED"
FETCH_HAVE_DESC == "HS_CLIENT_FETCH_HAVE_DESC"
FETCH_NO_HSDIRS == "HS_CLIENT_FETCH_NO_HSDIRS"
FETCH_NOT_ALLOWED == "HS_CLIENT_FETCH_NOT_ALLOWED"
FETCH_MISSING_INFO == "HS_CLIENT_FETCH_MISSING_INFO"
FETCH_PENDING == "HS_CLIENT_FETCH_PENDING"
FetchStatuses ==
    {FETCH_ERROR, FETCH_LAUNCHED, FETCH_HAVE_DESC, FETCH_NO_HSDIRS,
     FETCH_NOT_ALLOWED, FETCH_MISSING_INFO, FETCH_PENDING}

\* Connection states and purposes.  The names stand for the integer macros
\* of or.h; a directory connection's state is one of the DIR_CONN_STATE_*
\* values and DIR_PURPOSE_FETCH_HSDESC is a value of the purpose field, a
\* different number from every state a fetching connection is in.
AP_CONN_STATE_RENDDESC_WAIT == "AP_CONN_STATE_RENDDESC_WAIT"
AP_CONN_STATE_CIRCUIT_WAIT == "AP_CONN_STATE_CIRCUIT_WAIT"
DIR_CONN_STATE_CLIENT_SENDING == "DIR_CONN_STATE_CLIENT_SENDING"
DIR_CONN_STATE_CLIENT_READING == "DIR_CONN_STATE_CLIENT_READING"
DIR_PURPOSE_FETCH_HSDESC == "DIR_PURPOSE_FETCH_HSDESC"
END_STREAM_REASON_RESOLVEFAILED == "END_STREAM_REASON_RESOLVEFAILED"
NoReason == "none"

\* Circuit purposes and close reasons.
C_INTRODUCING == "CIRCUIT_PURPOSE_C_INTRODUCING"
C_INTRODUCE_ACK_WAIT == "CIRCUIT_PURPOSE_C_INTRODUCE_ACK_WAIT"
C_INTRODUCE_ACKED == "CIRCUIT_PURPOSE_C_INTRODUCE_ACKED"
C_ESTABLISH_REND == "CIRCUIT_PURPOSE_C_ESTABLISH_REND"
C_REND_READY == "CIRCUIT_PURPOSE_C_REND_READY"
C_REND_READY_INTRO_ACKED == "CIRCUIT_PURPOSE_C_REND_READY_INTRO_ACKED"
C_REND_JOINED == "CIRCUIT_PURPOSE_C_REND_JOINED"
REASON_INTERNAL == "END_CIRC_REASON_INTERNAL"
REASON_FINISHED == "END_CIRC_REASON_FINISHED"
REASON_TORPROTOCOL == "END_CIRC_REASON_TORPROTOCOL"

\* INTRODUCE_ACK status codes (hs_cell_parse_introduce_ack).
ACK_SUCCESS == "HS_CELL_INTRO_ACK_SUCCESS"
ACK_FAILURE == "HS_CELL_INTRO_ACK_FAILURE"
ACK_BADFMT == "HS_CELL_INTRO_ACK_BADFMT"
ACK_NORELAY == "HS_CELL_INTRO_ACK_NORELAY"
ACK_UNKNOWN == "unknown status"
AckStatuses == {ACK_SUCCESS, ACK_FAILURE, ACK_BADFMT, ACK_NORELAY, ACK_UNKNOWN}

(***************************************************************************)
(* The state.                                                              *)
(***************************************************************************)
VARIABLES
    streams,    \* the AP connections: [StreamIds -> stream record]
    dirConns,   \* the directory connections: a map from DirIds; newnym is
                \* history: the connection was there at the last NEWNYM
    hsReqs,     \* last_hid_serv_requests: set of <<blinded key, hsdir>>
    cache,      \* the client descriptor cache: a map from Services
    ipfc,       \* the intro-point failure cache: a map from <<service, auth key>>
    intro,      \* the introduction circuit
    rend,       \* the rendezvous circuit
    period,     \* hs_get_time_period_num(0)
    last,       \* the callback that ran last, its arguments and return value
    mon         \* the cells delivered to the circuit pair since INTRODUCE1

vars == <<streams, dirConns, hsReqs, cache, ipfc, intro, rend, period, last, mon>>

\* The program state as one record: the helpers of the file are functions
\* from the state before a call to the state after it.
World ==
    [streams |-> streams, dirConns |-> dirConns, hsReqs |-> hsReqs,
     cache |-> cache, ipfc |-> ipfc, intro |-> intro, rend |-> rend,
     period |-> period]

\* A map with no entry.
EmptyMap == [x \in {} |-> x]

Apply(w, l, m) ==
    /\ mon' = m
    /\ streams' = w.streams
    /\ dirConns' = w.dirConns
    /\ hsReqs' = w.hsReqs
    /\ cache' = w.cache
    /\ ipfc' = w.ipfc
    /\ intro' = w.intro
    /\ rend' = w.rend
    /\ period' = w.period
    /\ last' = l

\* The values of the timestamps of an AP connection: the time the SOCKS
\* request was accepted, and the time of the last arrival of a descriptor
\* that woke the connection.
TIME_ACCEPTED == "accepted"
TIME_DESC_ARRIVED == "descriptor arrived"

\* A slot of the AP connection array that holds no connection.
NoStream ==
    [sid |-> NoIdent, state |-> "closed", marked |-> FALSE,
     reason |-> NoReason, pending |-> FALSE,
     timestamp_created |-> TIME_ACCEPTED,
     timestamp_last_read_allowed |-> TIME_ACCEPTED,
     timestamp_last_write_allowed |-> TIME_ACCEPTED]

(***************************************************************************)
(* Intro-point failure cache and the usability predicate.                  *)
(***************************************************************************)
\* The limit on reachability failures of an intro point.
MAX_INTRO_POINT_REACHABILITY_FAILURES == 3

FreshIntroState == [error |-> FALSE, timed_out |-> FALSE, unreachable_count |-> 0]

\* hs_cache_client_intro_state_note(): create the entry on first use and
\* accumulate the failure.
hs_cache_client_intro_state_note(c, sid, auth, kind) ==
    LET k == <<sid, auth>>
        old == IF k \in DOMAIN c THEN c[k] ELSE FreshIntroState
        new == CASE kind = "INTRO_POINT_FAILURE_GENERIC" -> [old EXCEPT !.error = TRUE]
                 [] kind = "INTRO_POINT_FAILURE_TIMEOUT" -> [old EXCEPT !.timed_out = TRUE]
                 [] OTHER -> [old EXCEPT !.unreachable_count = @ + 1]
    IN  [x \in DOMAIN c \cup {k} |-> IF x = k THEN new ELSE c[x]]

\* intro_point_is_usable(), with the limit on reachability failures compared
\* by > instead of >=.
intro_point_is_usable_above_limit(c, sid, ip) ==
    LET k == <<sid, ip.auth_key>> IN
    IF k \notin DOMAIN c THEN TRUE
    ELSE IF c[k].error THEN FALSE
    ELSE IF c[k].timed_out THEN FALSE
    ELSE IF c[k].unreachable_count > MAX_INTRO_POINT_REACHABILITY_FAILURES THEN FALSE
    ELSE TRUE

intro_point_is_usable(c, sid, ip) ==
    LET k == <<sid, ip.auth_key>> IN
    IF k \notin DOMAIN c THEN TRUE
    ELSE IF c[k].error THEN FALSE
    ELSE IF c[k].timed_out THEN FALSE
    ELSE IF c[k].unreachable_count >= MAX_INTRO_POINT_REACHABILITY_FAILURES THEN FALSE
    ELSE TRUE

hs_client_any_intro_points_usable(c, sid, desc) ==
    \E i \in 1..Len(desc) : intro_point_is_usable(c, sid, desc[i])

\* hs_cache_lookup_as_client(): the descriptor of the service or NULL.
HaveDesc(w, sid) == sid \in DOMAIN w.cache

(***************************************************************************)
(* Connection lists.  connection_list_by_type_state() and                  *)
(* connection_list_by_type_purpose() return the connections of the type    *)
(* with that state (that purpose) that are not marked for close.           *)
(***************************************************************************)
ap_list_by_type_state(ss, state) ==
    SelectSeq(StreamOrder, LAMBDA t : ss[t].state = state /\ ~ss[t].marked)

dir_list_by_type_state(dc, state) ==
    {d \in DOMAIN dc : dc[d].state = state /\ ~dc[d].marked}

dir_list_by_type_purpose(dc, purpose) ==
    {d \in DOMAIN dc : dc[d].purpose = purpose /\ ~dc[d].marked}

\* connection_mark_unattached_ap(): the stream is marked for close with the
\* end reason.
connection_mark_unattached_ap(st, reason) ==
    [st EXCEPT !.marked = TRUE, !.reason = reason]

(***************************************************************************)
(* Fetch scheduler.                                                        *)
(***************************************************************************)
\* What a callback reads from outside the file while it runs: the options,
\* the consensus, the node list, the hashring and the base64 encoder.
\*   fetch    get_options()->FetchHidServDescriptors
\*   live     networkstatus_get_live_consensus(approx_time()) != NULL
\*   dirinfo  router_have_minimum_dir_info()
\*   resp     hs_get_responsible_hsdirs(): the responsible HSDirs, in rank order
\*   b64pick, b64launch, b64purge
\*            ed25519_public_to_base64() >= 0, in pick_hsdir_v3(), in
\*            directory_launch_v3_desc_fetch() and in purge_hid_serv_request()
\* A value that is not read, because the callback returned before, is left
\* at its default.
RespChoices == {<<>>, <<"h1">>}
Envs ==
    {e \in [fetch : BOOLEAN, live : BOOLEAN, dirinfo : BOOLEAN,
            resp : RespChoices, b64pick : BOOLEAN, b64launch : BOOLEAN,
            b64purge : BOOLEAN] :
        /\ ~e.fetch => e.live
        /\ ~(e.fetch /\ e.live) => e.dirinfo
        /\ ~(e.fetch /\ e.live /\ e.dirinfo)
           => e.b64pick /\ e.resp = <<>> /\ e.b64purge
        /\ ~e.b64pick => e.resp = <<>>
        /\ e.resp = <<>> => e.b64launch}
\* The inputs under which no directory request can be launched.
EnvsNoLaunch ==
    {e \in Envs : ~e.fetch \/ ~e.live \/ ~e.dirinfo \/ ~e.b64pick \/ e.resp = <<>>}
\* Every combination of the inputs of the pre-checks and of the launch, read
\* or not.
AllEnvs ==
    {e \in [fetch : BOOLEAN, live : BOOLEAN, dirinfo : BOOLEAN,
            resp : RespChoices, b64pick : BOOLEAN, b64launch : BOOLEAN,
            b64purge : BOOLEAN] :
        ~(e.fetch /\ e.live /\ e.dirinfo) => e.b64purge}

\* fetch_status_should_close_socks(), with a launched fetch among the
\* statuses that close the streams.
fetch_status_should_close_socks_launched(status) ==
    CASE status = FETCH_NO_HSDIRS -> TRUE
      [] status = FETCH_ERROR -> TRUE
      [] status = FETCH_NOT_ALLOWED -> TRUE
      [] status = FETCH_LAUNCHED -> TRUE
      [] OTHER -> FALSE

fetch_status_should_close_socks(status) ==
    CASE status = FETCH_NO_HSDIRS -> TRUE
      [] status = FETCH_ERROR -> TRUE
      [] status = FETCH_NOT_ALLOWED -> TRUE
      [] OTHER -> FALSE

\* cancel_descriptor_fetches(): the list is asked for by type and STATE, and
\* the state handed over is the purpose DIR_PURPOSE_FETCH_HSDESC.
cancel_descriptor_fetches(w) ==
    LET conns == dir_list_by_type_state(w.dirConns, DIR_PURPOSE_FETCH_HSDESC) IN
    [w EXCEPT !.dirConns =
        [d \in DOMAIN w.dirConns |->
            IF d \in conns THEN [w.dirConns[d] EXCEPT !.marked = TRUE]
            ELSE w.dirConns[d]]]

\* flag_all_conn_wait_desc(), with the identity of the stream not compared.
flag_all_conn_wait_desc_any_service(w, sid) ==
    LET conns == ap_list_by_type_state(w.streams, AP_CONN_STATE_CIRCUIT_WAIT)
        hit(t) == \E i \in 1..Len(conns) : conns[i] = t
    IN  [w EXCEPT !.streams =
            [t \in StreamIds |->
                IF hit(t)
                THEN [w.streams[t] EXCEPT !.pending = FALSE,
                                          !.state = AP_CONN_STATE_RENDDESC_WAIT]
                ELSE w.streams[t]]]

\* flag_all_conn_wait_desc(): streams of the service waiting for a circuit go
\* back to waiting for the descriptor.
flag_all_conn_wait_desc(w, sid) ==
    LET conns == ap_list_by_type_state(w.streams, AP_CONN_STATE_CIRCUIT_WAIT)
        hit(t) == /\ \E i \in 1..Len(conns) : conns[i] = t
                  /\ w.streams[t].sid # NoIdent
                  /\ w.streams[t].sid = sid
    IN  [w EXCEPT !.streams =
            [t \in StreamIds |->
                IF hit(t)
                THEN [w.streams[t] EXCEPT !.pending = FALSE,
                                          !.state = AP_CONN_STATE_RENDDESC_WAIT]
                ELSE w.streams[t]]]

\* purge_hid_serv_request(): forget the HSDir requests made for the blinded
\* key of the current time period; nothing is done when the key cannot be
\* encoded (b64 is ed25519_public_to_base64() >= 0).
purge_hid_serv_request(w, sid, b64) ==
    IF ~b64 THEN w
    ELSE [w EXCEPT !.hsReqs = {r \in @ : r[1] # BlindedKey(sid, w.period)}]

\* directory_request_is_pending(), with the pending check lost.
directory_request_is_pending_never(dc, sid) == FALSE

\* directory_request_is_pending(), with the connections listed by state as
\* cancel_descriptor_fetches() lists them.
directory_request_is_pending_by_state(dc, sid) ==
    \E d \in dir_list_by_type_state(dc, DIR_PURPOSE_FETCH_HSDESC) :
        dc[d].sid = sid

directory_request_is_pending(dc, sid) ==
    \E d \in dir_list_by_type_purpose(dc, DIR_PURPOSE_FETCH_HSDESC) :
        dc[d].sid = sid

close_all_socks_conns_waiting_for_desc(w, sid, reason) ==
    LET conns == ap_list_by_type_state(w.streams, AP_CONN_STATE_RENDDESC_WAIT)
        hit(t) == /\ \E i \in 1..Len(conns) : conns[i] = t
                  /\ w.streams[t].sid # NoIdent
                  /\ w.streams[t].sid = sid
    IN  [w EXCEPT !.streams =
            [t \in StreamIds |->
                IF hit(t) THEN connection_mark_unattached_ap(w.streams[t], reason)
                ELSE w.streams[t]]]

\* hs_pick_hsdir(): the first responsible HSDir, in rank order, that was not
\* recently queried for the blinded key; the request is remembered.
hs_pick_hsdir(w, resp, bk) ==
    LET fresh == SelectSeq(resp, LAMBDA h : <<bk, h>> \notin w.hsReqs) IN
    IF Len(fresh) = 0 THEN [w |-> w, hsdir |-> "NULL"]
    ELSE [w |-> [w EXCEPT !.hsReqs = @ \cup {<<bk, fresh[1]>>}], hsdir |-> fresh[1]]

pick_hsdir_v3(w, sid, env) ==
    IF ~env.b64pick THEN [w |-> w, hsdir |-> "NULL"]
    ELSE hs_pick_hsdir(w, env.resp, BlindedKey(sid, w.period))

\* directory_initiate_request(): a new directory connection in the first free
\* slot of the connection array (none when the array is full).
directory_initiate_request(w, sid) ==
    LET free == DirIds \ DOMAIN w.dirConns IN
    IF free = {} THEN w
    ELSE LET d == CHOOSE x \in free : \A y \in free : x <= y IN
         [w EXCEPT !.dirConns =
            [x \in DOMAIN w.dirConns \cup {d} |->
                IF x = d
                THEN [sid |-> sid, blinded |-> BlindedKey(sid, w.period),
                      state |-> DIR_CONN_STATE_CLIENT_SENDING,
                      purpose |-> DIR_PURPOSE_FETCH_HSDESC, marked |-> FALSE,
                      newnym |-> FALSE]
                ELSE w.dirConns[x]]]

directory_launch_v3_desc_fetch(w, sid, hsdir, env) ==
    IF ~env.b64launch THEN [w |-> w, status |-> FETCH_ERROR]
    ELSE [w |-> directory_initiate_request(w, sid), status |-> FETCH_LAUNCHED]

fetch_v3_desc(w, sid, env) ==
    LET p == pick_hsdir_v3(w, sid, env) IN
    IF p.hsdir = "NULL" THEN [w |-> p.w, status |-> FETCH_NO_HSDIRS]
    ELSE directory_launch_v3_desc_fetch(p.w, sid, p.hsdir, env)

CAN_FETCH == "can fetch"

\* can_client_refetch_desc(), with the pending request looked for before the
\* cached descriptor.
can_client_refetch_desc_pending_first(w, sid, env) ==
    IF ~env.fetch THEN FETCH_NOT_ALLOWED
    ELSE IF ~env.live THEN FETCH_MISSING_INFO
    ELSE IF ~env.dirinfo THEN FETCH_MISSING_INFO
    ELSE IF directory_request_is_pending(w.dirConns, sid) THEN FETCH_PENDING
    ELSE IF /\ HaveDesc(w, sid)
            /\ hs_client_any_intro_points_usable(w.ipfc, sid, w.cache[sid])
         THEN FETCH_HAVE_DESC
    ELSE CAN_FETCH

can_client_refetch_desc(w, sid, env) ==
    IF ~env.fetch THEN FETCH_NOT_ALLOWED
    ELSE IF ~env.live THEN FETCH_MISSING_INFO
    ELSE IF ~env.dirinfo THEN FETCH_MISSING_INFO
    ELSE IF /\ HaveDesc(w, sid)
            /\ hs_client_any_intro_points_usable(w.ipfc, sid, w.cache[sid])
         THEN FETCH_HAVE_DESC
    ELSE IF directory_request_is_pending(w.dirConns, sid) THEN FETCH_PENDING
    ELSE CAN_FETCH

hs_client_refetch_hsdesc(w, sid, env) ==
    LET pre == can_client_refetch_desc(w, sid, env) IN
    IF pre # CAN_FETCH THEN [w |-> w, status |-> pre]
    ELSE LET f == fetch_v3_desc(w, sid, env) IN
         IF fetch_status_should_close_socks(f.status)
         THEN [w |-> purge_hid_serv_request(
                        close_all_socks_conns_waiting_for_desc(
                            f.w, sid, END_STREAM_REASON_RESOLVEFAILED),
                        sid, env.b64purge),
               status |-> f.status]
         ELSE f

(***************************************************************************)
(* Circuits.  One introduction circuit and one rendezvous circuit are      *)
(* followed; a slot whose st is "none" holds no circuit.                   *)
(*   st          "none", "building" (being built or extended) or "open"    *)
(*   auth, enc   hs_ident->intro_auth_pk, hs_ident->intro_enc_pk           *)
(*   cookie      hs_ident->rendezvous_cookie                               *)
(*   exit        build_state->chosen_exit->identity_digest                 *)
(*   sel         the intro point the chosen exit was made from             *)
(*   relay_early remaining_relay_early_cells                               *)
(*   registered  the circuit is in the circuit map under its cookie        *)
(*   e2e         the end-to-end keys installed on the circuit              *)
(*   sent        the keys carried by the INTRODUCE1 cell last transmitted  *)
(*               for this rendezvous circuit                               *)
(***************************************************************************)
NoKeys == <<"no keys">>
NoCell == [auth |-> ZeroKey, enc |-> ZeroKey]
NoIntro ==
    [st |-> "none", purpose |-> C_INTRODUCING, marked |-> FALSE,
     reason |-> NoReason, sid |-> NoIdent, auth |-> ZeroKey, cookie |-> ZeroKey,
     exit |-> "NULL", sel |-> "NULL", relay_early |-> 0]
NoRend ==
    [st |-> "none", purpose |-> C_ESTABLISH_REND, marked |-> FALSE,
     reason |-> NoReason, sid |-> NoIdent, auth |-> ZeroKey, enc |-> ZeroKey,
     cookie |-> ZeroKey, registered |-> FALSE, e2e |-> NoKeys, sent |-> NoCell]

\* The client's ephemeral keypair of a rendezvous circuit is made together
\* with its cookie (hs_ident->rendezvous_client_kp).
ClientKp(cookie) == <<"kp", cookie>>

\* circuit_mark_for_close(): a second call on a marked circuit changes nothing.
circuit_mark_for_close(c, reason) ==
    IF c.marked THEN c ELSE [c EXCEPT !.marked = TRUE, !.reason = reason]

circuit_change_purpose(c, purpose) == [c EXCEPT !.purpose = purpose]

\* hs_circuitmap_get_established_rend_circ_client_side(): the rendezvous
\* circuit registered under the cookie, when it is established and not
\* marked for close.
get_established_rend_circ(r, cookie) ==
    /\ r.st # "none"
    /\ r.registered
    /\ r.cookie = cookie
    /\ ~r.marked
    /\ r.purpose \in {C_REND_READY, C_REND_READY_INTRO_ACKED, C_REND_JOINED}

\* hs_circuitmap_get_rend_circ_client_side(): as above, or still establishing.
get_rend_circ(r, cookie) ==
    \/ get_established_rend_circ(r, cookie)
    \/ /\ r.st # "none"
       /\ r.registered
       /\ r.cookie = cookie
       /\ ~r.marked
       /\ r.purpose = C_ESTABLISH_REND

\* hs_ident_intro_circ_is_valid(): neither key of the ident is all zero.
hs_ident_intro_circ_is_valid(c) == c.sid # NoIdent /\ c.auth # ZeroKey

intro_circ_is_ok(c) ==
    /\ c.purpose \in {C_INTRODUCING, C_INTRODUCE_ACK_WAIT, C_INTRODUCE_ACKED}
    /\ c.sid # NoIdent
    /\ hs_ident_intro_circ_is_valid(c)

\* find_desc_intro_point_by_ident(): index of the first intro point whose
\* authentication key is the ident's, 0 when there is none.
find_desc_intro_point_by_ident(auth, desc) ==
    LET hits == {i \in 1..Len(desc) : desc[i].auth_key = auth} IN
    IF hits = {} THEN 0 ELSE CHOOSE i \in hits : \A j \in hits : i <= j

\* find_desc_intro_point_by_legacy_id(): index of the first intro point whose
\* legacy identity link specifier is the digest, 0 when there is none.
find_desc_intro_point_by_legacy_id(legacy_id, desc) ==
    LET hits == {i \in 1..Len(desc) : desc[i].legacy_id = legacy_id} IN
    IF hits = {} THEN 0 ELSE CHOOSE i \in hits : \A j \in hits : i <= j

\* setup_intro_circ_auth_key(), leaving the circuit without the key of the
\* intro point it found.
setup_intro_circ_auth_key_no_copy(w) == w

\* setup_intro_circ_auth_key(): without a descriptor, or without a matching
\* intro point, the ident is left as it was.
setup_intro_circ_auth_key(w) ==
    IF ~HaveDesc(w, w.intro.sid) THEN w
    ELSE LET desc == w.cache[w.intro.sid]
             i == find_desc_intro_point_by_legacy_id(w.intro.exit, desc)
         IN  IF i # 0 THEN [w EXCEPT !.intro.auth = desc[i].auth_key] ELSE w

\* The extend_info_t made from an intro point, and NULL.
EI(ip) == [legacy_id |-> ip.legacy_id, from |-> ip.auth_key]
NoEI == [legacy_id |-> "NULL", from |-> "NULL"]

RemoveAt(s, i) == SubSeq(s, 1, i - 1) \o SubSeq(s, i + 1, Len(s))

\* The while loop of client_get_random_intro(): every result the draws of
\* crypto_rand_int() can lead to.
RECURSIVE random_intro_loop(_, _, _, _, _, _)
random_intro_loop(c, sid, usable_ips, ei_excluded, excl, strict) ==
    IF Len(usable_ips) = 0
    THEN {IF strict THEN NoEI ELSE ei_excluded}
    ELSE UNION {
        LET ip == usable_ips[idx]
            rest == RemoveAt(usable_ips, idx)
        IN  IF ~intro_point_is_usable(c, sid, ip)
            THEN random_intro_loop(c, sid, rest, ei_excluded, excl, strict)
            ELSE IF ~ip.lspecs_ok
            THEN random_intro_loop(c, sid, rest, ei_excluded, excl, strict)
            ELSE IF ip.legacy_id \in excl
            THEN random_intro_loop(c, sid, rest, EI(ip), excl, strict)
            ELSE {EI(ip)}
        : idx \in 1..Len(usable_ips)}

\* client_get_random_intro(), without the test of the pick against
\* ExcludeNodes.
client_get_random_intro_no_exclude(w, sid, excl, strict) ==
    IF \/ ~HaveDesc(w, sid)
       \/ ~hs_client_any_intro_points_usable(w.ipfc, sid, w.cache[sid])
    THEN {NoEI}
    ELSE random_intro_loop(w.ipfc, sid, w.cache[sid], NoEI, {}, strict)

\* client_get_random_intro(), without the look at StrictNodes after the loop.
client_get_random_intro_no_strict(w, sid, excl, strict) ==
    IF \/ ~HaveDesc(w, sid)
       \/ ~hs_client_any_intro_points_usable(w.ipfc, sid, w.cache[sid])
    THEN {NoEI}
    ELSE random_intro_loop(w.ipfc, sid, w.cache[sid], NoEI, excl, FALSE)

\* client_get_random_intro(); excl is ExcludeNodes, strict is StrictNodes.
client_get_random_intro(w, sid, excl, strict) ==
    IF \/ ~HaveDesc(w, sid)
       \/ ~hs_client_any_intro_points_usable(w.ipfc, sid, w.cache[sid])
    THEN {NoEI}
    ELSE random_intro_loop(w.ipfc, sid, w.cache[sid], NoEI, excl, strict)

(***************************************************************************)
(* Introduction state machine.                                             *)
(***************************************************************************)
\* hs_circ_send_introduce1(): on success the intro circuit's ident takes the
\* rendezvous cookie and the cell carries the intro point's keys; on failure
\* the intro circuit is marked for close.
hs_circ_send_introduce1(w, ip, send_ok) ==
    IF send_ok
    THEN [w |-> [w EXCEPT !.intro.cookie = w.rend.cookie,
                          !.rend.sent = [auth |-> ip.auth_key, enc |-> ip.enc_key]],
          ret |-> 0]
    ELSE [w |-> [w EXCEPT !.intro = circuit_mark_for_close(@, REASON_INTERNAL)],
          ret |-> -1]

\* The copy of the key material, with the encryption key forgotten.
send_introduce1_copy_keys_noenc(w, ip) ==
    [w EXCEPT !.rend.auth = w.intro.auth]

\* The copy of the key material, with the arguments of ed25519_pubkey_copy()
\* the wrong way round.
send_introduce1_copy_keys_swapped(w, ip) ==
    [w EXCEPT !.rend.enc = ip.enc_key, !.intro.auth = w.rend.auth]

\* send_introduce1(), after the cell was sent: the intro point's encryption
\* key and the intro circuit's authentication key go to the rendezvous ident.
send_introduce1_copy_keys(w, ip) ==
    [w EXCEPT !.rend.enc = ip.enc_key, !.rend.auth = w.intro.auth]

\* send_introduce1(), label perm_err, leaving the rendezvous circuit open.
send_introduce1_perm_err_intro_only(w) ==
    [w |-> [w EXCEPT !.intro = IF ~@.marked
                                THEN circuit_mark_for_close(@, REASON_INTERNAL)
                                ELSE @],
     ret |-> -2, refetch |-> "not called", tx |-> "none"]

\* send_introduce1(), label perm_err.
send_introduce1_perm_err(w) ==
    [w |-> [w EXCEPT !.intro = IF ~@.marked
                                THEN circuit_mark_for_close(@, REASON_INTERNAL)
                                ELSE @,
                     !.rend = circuit_mark_for_close(@, REASON_INTERNAL)],
     ret |-> -2, refetch |-> "not called", tx |-> "none"]

\* send_introduce1(), the branch for a missing or unusable descriptor.
send_introduce1_tran_err(w, env) ==
    LET r == hs_client_refetch_hsdesc(w, w.intro.sid, env) IN
    [w |-> flag_all_conn_wait_desc(r.w, w.intro.sid), ret |-> -1,
     refetch |-> r.status, tx |-> "none"]

\* send_introduce1(), asking only for a cached descriptor and not for a
\* usable intro point in it.
send_introduce1_any_state(w, env, send_ok) ==
    IF ~intro_circ_is_ok(w.intro) THEN send_introduce1_perm_err(w)
    ELSE IF ~HaveDesc(w, w.intro.sid)
    THEN send_introduce1_tran_err(w, env)
    ELSE LET desc == w.cache[w.intro.sid]
             i == find_desc_intro_point_by_ident(w.intro.auth, desc)
         IN  IF i = 0 THEN send_introduce1_perm_err(w)
             ELSE LET s == hs_circ_send_introduce1(w, desc[i], send_ok) IN
                  IF s.ret < 0
                  THEN [send_introduce1_perm_err(s.w) EXCEPT !.tx = "failed"]
                  ELSE [w |-> [send_introduce1_copy_keys(s.w, desc[i])
                                 EXCEPT !.intro.purpose = C_INTRODUCE_ACK_WAIT],
                        ret |-> 0, refetch |-> "not called", tx |-> "ok"]

\* send_introduce1(), leaving the purpose of the intro circuit as it was
\* after the cell was sent.
send_introduce1_purpose_kept(w, env, send_ok) ==
    IF ~intro_circ_is_ok(w.intro) THEN send_introduce1_perm_err(w)
    ELSE IF \/ ~HaveDesc(w, w.intro.sid)
            \/ ~hs_client_any_intro_points_usable(w.ipfc, w.intro.sid,
                                                  w.cache[w.intro.sid])
    THEN send_introduce1_tran_err(w, env)
    ELSE LET desc == w.cache[w.intro.sid]
             i == find_desc_intro_point_by_ident(w.intro.auth, desc)
         IN  IF i = 0 THEN send_introduce1_perm_err(w)
             ELSE LET s == hs_circ_send_introduce1(w, desc[i], send_ok) IN
                  IF s.ret < 0
                  THEN [send_introduce1_perm_err(s.w) EXCEPT !.tx = "failed"]
                  ELSE [w |-> send_introduce1_copy_keys(s.w, desc[i]),
                        ret |-> 0, refetch |-> "not called", tx |-> "ok"]

\* The results of send_introduce1() carry, beside the state and the return
\* value, the status of the refetch it ordered ("not called" when it ordered
\* none) and what became of the transmission of the cell ("none" when it was
\* not tried).
send_introduce1(w, env, send_ok) ==
    IF ~intro_circ_is_ok(w.intro) THEN send_introduce1_perm_err(w)
    ELSE IF \/ ~HaveDesc(w, w.intro.sid)
            \/ ~hs_client_any_intro_points_usable(w.ipfc, w.intro.sid,
                                                  w.cache[w.intro.sid])
    THEN send_introduce1_tran_err(w, env)
    ELSE LET desc == w.cache[w.intro.sid]
             i == find_desc_intro_point_by_ident(w.intro.auth, desc)
         IN  IF i = 0 THEN send_introduce1_perm_err(w)
             ELSE LET s == hs_circ_send_introduce1(w, desc[i], send_ok) IN
                  IF s.ret < 0
                  THEN [send_introduce1_perm_err(s.w) EXCEPT !.tx = "failed"]
                  ELSE [w |-> [send_introduce1_copy_keys(s.w, desc[i])
                                 EXCEPT !.intro.purpose = C_INTRODUCE_ACK_WAIT],
                        ret |-> 0, refetch |-> "not called", tx |-> "ok"]

\* circuit_extend_to_new_exit(): the circuit is being extended to the new
\* exit and one RELAY_EARLY cell is used; on failure it is marked for close.
circuit_extend_to_new_exit(c, ei, extend_ok) ==
    IF extend_ok
    THEN [c EXCEPT !.st = "building", !.exit = ei.legacy_id, !.sel = ei.from,
                   !.relay_early = @ - 1]
    ELSE circuit_mark_for_close(c, "extend failed")

\* hs_client_reextend_intro_circuit(), with an empty RELAY_EARLY budget
\* reported as a failure.
hs_client_reextend_intro_circuit_budget_fails(w, excl, strict, extend_ok) ==
    {IF ei = NoEI
     THEN [w |-> [w EXCEPT !.intro = circuit_mark_for_close(@, REASON_INTERNAL)],
           ret |-> -1, ei |-> ei, ext |-> "none"]
     ELSE IF w.intro.relay_early > 0
     THEN [w |-> [w EXCEPT !.intro = circuit_extend_to_new_exit(@, ei, extend_ok)],
           ret |-> IF extend_ok THEN 0 ELSE -1, ei |-> ei,
           ext |-> IF extend_ok THEN "ok" ELSE "failed"]
     ELSE [w |-> [w EXCEPT !.intro = circuit_mark_for_close(@, REASON_FINISHED)],
           ret |-> -1, ei |-> ei, ext |-> "none"]
     : ei \in client_get_random_intro(w, w.intro.sid, excl, strict)}

\* hs_client_reextend_intro_circuit(): one result for every intro point the
\* random selection can return.  A result carries the intro point selected
\* (ei) and what became of the extension (ext: "none" when not tried).
hs_client_reextend_intro_circuit(w, excl, strict, extend_ok) ==
    {IF ei = NoEI
     THEN [w |-> [w EXCEPT !.intro = circuit_mark_for_close(@, REASON_INTERNAL)],
           ret |-> -1, ei |-> ei, ext |-> "none"]
     ELSE IF w.intro.relay_early > 0
     THEN [w |-> [w EXCEPT !.intro = circuit_extend_to_new_exit(@, ei, extend_ok)],
           ret |-> IF extend_ok THEN 0 ELSE -1, ei |-> ei,
           ext |-> IF extend_ok THEN "ok" ELSE "failed"]
     ELSE [w |-> [w EXCEPT !.intro = circuit_mark_for_close(@, REASON_FINISHED)],
           ret |-> 0, ei |-> ei, ext |-> "none"]
     : ei \in client_get_random_intro(w, w.intro.sid, excl, strict)}

\* close_or_reextend_intro_circ(), label close, leaving the rendezvous
\* circuit alone.
close_both_legs_intro_only(w) ==
    IF ~w.intro.marked
    THEN [w EXCEPT !.intro = circuit_mark_for_close(
                                 circuit_change_purpose(@, C_INTRODUCE_ACKED),
                                 REASON_FINISHED)]
    ELSE w

\* close_or_reextend_intro_circ(), label close.
close_both_legs(w) ==
    LET i == IF ~w.intro.marked
             THEN circuit_mark_for_close(
                      circuit_change_purpose(w.intro, C_INTRODUCE_ACKED),
                      REASON_FINISHED)
             ELSE w.intro
        r == IF get_rend_circ(w.rend, w.intro.cookie)
             THEN circuit_mark_for_close(w.rend, REASON_FINISHED)
             ELSE w.rend
    IN  [w EXCEPT !.intro = i, !.rend = r]

close_or_reextend_intro_circ(w, excl, strict, extend_ok) ==
    IF ~HaveDesc(w, w.intro.sid)
    THEN {[w |-> close_both_legs(w), ret |-> -1, ei |-> NoEI, ext |-> "none"]}
    ELSE IF ~hs_client_any_intro_points_usable(w.ipfc, w.intro.sid,
                                               w.cache[w.intro.sid])
    THEN {[w |-> close_both_legs(w), ret |-> -1, ei |-> NoEI, ext |-> "none"]}
    ELSE {IF x.ret < 0 THEN [x EXCEPT !.w = close_both_legs(x.w)] ELSE x
          : x \in hs_client_reextend_intro_circuit(w, excl, strict, extend_ok)}

\* handle_introduce_ack_success(), without the look at a rendezvous circuit
\* that is already joined.
handle_introduce_ack_success_nojoined(w) ==
    LET found == get_established_rend_circ(w.rend, w.intro.cookie)
        r == IF found
             THEN circuit_change_purpose(w.rend, C_REND_READY_INTRO_ACKED)
             ELSE w.rend
    IN  [w EXCEPT !.rend = r,
                  !.intro = circuit_mark_for_close(
                                circuit_change_purpose(@, C_INTRODUCE_ACKED),
                                REASON_FINISHED)]

\* handle_introduce_ack_success(), stopping when no rendezvous circuit is
\* found for the cookie.
handle_introduce_ack_success_stop(w) ==
    IF ~get_established_rend_circ(w.rend, w.intro.cookie) THEN w
    ELSE [w EXCEPT !.rend = IF @.purpose # C_REND_JOINED
                             THEN circuit_change_purpose(@, C_REND_READY_INTRO_ACKED)
                             ELSE @,
                   !.intro = circuit_mark_for_close(
                                 circuit_change_purpose(@, C_INTRODUCE_ACKED),
                                 REASON_FINISHED)]

handle_introduce_ack_success(w) ==
    LET found == get_established_rend_circ(w.rend, w.intro.cookie)
        r == IF found /\ w.rend.purpose # C_REND_JOINED
             THEN circuit_change_purpose(w.rend, C_REND_READY_INTRO_ACKED)
             ELSE w.rend
    IN  [w EXCEPT !.rend = r,
                  !.intro = circuit_mark_for_close(
                                circuit_change_purpose(@, C_INTRODUCE_ACKED),
                                REASON_FINISHED)]

\* handle_introduce_ack_bad(), noting nothing in the failure cache.
handle_introduce_ack_bad_nonote(w) ==
    [w EXCEPT !.intro = circuit_change_purpose(@, C_INTRODUCING)]

handle_introduce_ack_bad(w) ==
    [w EXCEPT !.intro = circuit_change_purpose(@, C_INTRODUCING),
              !.ipfc = hs_cache_client_intro_state_note(
                           @, w.intro.sid, w.intro.auth,
                           "INTRO_POINT_FAILURE_GENERIC")]

\* handle_introduce_ack(), with an unknown status taken for a refusal.
handle_introduce_ack_unknown_refused(w, status, excl, strict, extend_ok) ==
    IF status = ACK_SUCCESS
    THEN {[w |-> handle_introduce_ack_success(w), ret |-> 0, ei |-> NoEI,
           ext |-> "none"]}
    ELSE close_or_reextend_intro_circ(handle_introduce_ack_bad(w),
                                      excl, strict, extend_ok)

handle_introduce_ack(w, status, excl, strict, extend_ok) ==
    IF status = ACK_SUCCESS
    THEN {[w |-> handle_introduce_ack_success(w), ret |-> 0, ei |-> NoEI,
           ext |-> "none"]}
    ELSE IF status \in {ACK_FAILURE, ACK_BADFMT, ACK_NORELAY}
    THEN close_or_reextend_intro_circ(handle_introduce_ack_bad(w),
                                      excl, strict, extend_ok)
    ELSE {[w |-> w, ret |-> -1, ei |-> NoEI, ext |-> "none"]}

\* hs_client_receive_introduce_ack(), with an unexpected cell dropped and
\* the circuit left open.
hs_client_receive_introduce_ack_unexpected_dropped(w, status, excl, strict, extend_ok) ==
    IF w.intro.purpose # C_INTRODUCE_ACK_WAIT
    THEN {[w |-> w, ret |-> -1, ei |-> NoEI, ext |-> "none"]}
    ELSE handle_introduce_ack(w, status, excl, strict, extend_ok)

\* hs_client_receive_introduce_ack(), with an unexpected cell counted as a
\* failure of the intro point.
hs_client_receive_introduce_ack_unexpected_noted(w, status, excl, strict, extend_ok) ==
    IF w.intro.purpose # C_INTRODUCE_ACK_WAIT
    THEN {[w |-> [w EXCEPT !.intro =
                     circuit_mark_for_close(@, REASON_TORPROTOCOL),
                           !.ipfc = hs_cache_client_intro_state_note(
                                        @, w.intro.sid, w.intro.auth,
                                        "INTRO_POINT_FAILURE_GENERIC")],
           ret |-> -1, ei |-> NoEI, ext |-> "none"]}
    ELSE handle_introduce_ack(w, status, excl, strict, extend_ok)

hs_client_receive_introduce_ack(w, status, excl, strict, extend_ok) ==
    IF w.intro.purpose # C_INTRODUCE_ACK_WAIT
    THEN {[w |-> [w EXCEPT !.intro =
                     circuit_mark_for_close(@, REASON_TORPROTOCOL)],
           ret |-> -1, ei |-> NoEI, ext |-> "none"]}
    ELSE handle_introduce_ack(w, status, excl, strict, extend_ok)

(***************************************************************************)
(* Rendezvous state machine.                                               *)
(***************************************************************************)
\* hs_ntor_client_get_rendezvous1_keys(): the key seed and the MAC are
\* functions of the four keys (no two inputs give the same MAC).
NtorMac(auth, kp, enc, spk) == <<"mac", auth, kp, enc, spk>>
NtorSeed(auth, kp, enc, spk) == <<"seed", auth, kp, enc, spk>>
hs_ntor_client_get_rendezvous1_keys(auth, kp, enc, spk) ==
    [ret |-> 0, auth_mac |-> NtorMac(auth, kp, enc, spk),
     ntor_key_seed |-> NtorSeed(auth, kp, enc, spk)]

\* hs_ntor_client_rendezvous2_mac_is_good(): constant-time comparison.
hs_ntor_client_rendezvous2_mac_is_good(keys, mac) == keys.auth_mac = mac

\* hs_circuit_setup_e2e_rend_circ(): the keys are installed and the circuit
\* is joined.
hs_circuit_setup_e2e_rend_circ(c, seed) ==
    [c |-> [c EXCEPT !.e2e = seed, !.purpose = C_REND_JOINED], ret |-> 0]

\* A MAC made without the client's ephemeral key: by the security of the
\* handshake it equals no computed MAC.
ForgedMac == <<"forged">>
\* The RENDEZVOUS2 cells that can arrive: parsable or not, carrying a forged
\* MAC or the MAC the service computes from the INTRODUCE1 cell it received.
Rendezvous2Cells(r) ==
    {[len_ok |-> l, server_pk |-> y, auth_mac |-> m] :
        l \in BOOLEAN, y \in ServerPks,
        m \in {ForgedMac} \cup
              {NtorMac(r.sent.auth, ClientKp(r.cookie), r.sent.enc, y2) :
                  y2 \in IF r.sent = NoCell THEN {} ELSE ServerPks}}

\* The cell is the answer of the service to the INTRODUCE1 cell last sent.
ServiceCell(r, cell) ==
    /\ cell.len_ok
    /\ r.sent # NoCell
    /\ cell.auth_mac =
           NtorMac(r.sent.auth, ClientKp(r.cookie), r.sent.enc, cell.server_pk)

\* handle_rendezvous2(), with the comparison of the MAC left out.
handle_rendezvous2_nomac(w, cell) ==
    LET err == [w |-> [w EXCEPT !.rend =
                          circuit_mark_for_close(@, REASON_TORPROTOCOL)],
                ret |-> -1]
        keys == hs_ntor_client_get_rendezvous1_keys(
                    w.rend.auth, ClientKp(w.rend.cookie), w.rend.enc,
                    cell.server_pk)
    IN  IF ~cell.len_ok THEN err
        ELSE IF keys.ret < 0 THEN err
        ELSE LET e == hs_circuit_setup_e2e_rend_circ(w.rend, keys.ntor_key_seed)
             IN  IF e.ret < 0 THEN err
                 ELSE [w |-> [w EXCEPT !.rend = e.c], ret |-> 0]

handle_rendezvous2(w, cell) ==
    LET err == [w |-> [w EXCEPT !.rend =
                          circuit_mark_for_close(@, REASON_TORPROTOCOL)],
                ret |-> -1]
        keys == hs_ntor_client_get_rendezvous1_keys(
                    w.rend.auth, ClientKp(w.rend.cookie), w.rend.enc,
                    cell.server_pk)
    IN  IF ~cell.len_ok THEN err
        ELSE IF keys.ret < 0 THEN err
        ELSE IF ~hs_ntor_client_rendezvous2_mac_is_good(keys, cell.auth_mac)
        THEN err
        ELSE LET e == hs_circuit_setup_e2e_rend_circ(w.rend, keys.ntor_key_seed)
             IN  IF e.ret < 0 THEN err
                 ELSE [w |-> [w EXCEPT !.rend = e.c], ret |-> 0]

\* hs_client_receive_rendezvous2(), without the look at the purpose of the
\* circuit.
hs_client_receive_rendezvous2_any_purpose(w, cell) == handle_rendezvous2(w, cell)

hs_client_receive_rendezvous2(w, cell) ==
    IF /\ w.rend.purpose # C_REND_READY
       /\ w.rend.purpose # C_REND_READY_INTRO_ACKED
    THEN [w |-> [w EXCEPT !.rend =
                    circuit_mark_for_close(@, REASON_TORPROTOCOL)],
          ret |-> -1]
    ELSE handle_rendezvous2(w, cell)

\* hs_client_receive_rendezvous_acked(), making the circuit ready whatever
\* its purpose was.
hs_client_receive_rendezvous_acked_any_purpose(w) ==
    [w |-> [w EXCEPT !.rend = circuit_change_purpose(@, C_REND_READY)],
     ret |-> 0]

hs_client_receive_rendezvous_acked(w) ==
    IF w.rend.purpose # C_ESTABLISH_REND
    THEN [w |-> [w EXCEPT !.rend =
                    circuit_mark_for_close(@, REASON_TORPROTOCOL)],
          ret |-> -1]
    ELSE [w |-> [w EXCEPT !.rend = circuit_change_purpose(@, C_REND_READY)],
          ret |-> 0]

\* client_rendezvous_circ_has_opened(), registering the circuit without a
\* look at marked_for_close.
client_rendezvous_circ_has_opened_registers_marked(w, rp_ok, est_ok) ==
    IF ~rp_ok THEN w
    ELSE LET r == IF est_ok THEN w.rend
                  ELSE circuit_mark_for_close(w.rend, REASON_INTERNAL)
         IN  [w EXCEPT !.rend = [r EXCEPT !.registered = TRUE]]

\* client_rendezvous_circ_has_opened().  rp_ok: the rendezvous point is not
\* a known node without v3 support; est_ok: hs_circ_send_establish_rendezvous()
\* sent the cell (it marks the circuit for close when it cannot).
client_rendezvous_circ_has_opened(w, rp_ok, est_ok) ==
    IF ~rp_ok THEN w
    ELSE LET r == IF est_ok THEN w.rend
                  ELSE circuit_mark_for_close(w.rend, REASON_INTERNAL)
         IN  [w EXCEPT !.rend = IF ~r.marked
                                THEN [r EXCEPT !.registered = TRUE]
                                ELSE r]

client_intro_circ_has_opened(w) == setup_intro_circ_auth_key(w)

(***************************************************************************)
(* Stream reconciliation.                                                  *)
(***************************************************************************)
\* note_connection_attempt_succeeded(), cleaning up the state of the intro
\* points of the service as the v2 subsystem does at this stage.
note_connection_attempt_succeeded_v2_cleanup(w, sid, b64) ==
    [purge_hid_serv_request(w, sid, b64)
        EXCEPT !.ipfc = [k \in {x \in DOMAIN w.ipfc : x[1] # sid} |-> w.ipfc[k]]]

note_connection_attempt_succeeded(w, sid, b64) ==
    purge_hid_serv_request(w, sid, b64)

\* The loop of hs_client_desc_has_arrived() over the list of streams waiting
\* for a descriptor.
RECURSIVE desc_has_arrived_loop(_, _, _, _)
desc_has_arrived_loop(w, conns, sid, b64) ==
    IF Len(conns) = 0 THEN w
    ELSE LET t == Head(conns)
             st == w.streams[t]
         IN  IF st.sid = NoIdent \/ st.sid # sid
             THEN desc_has_arrived_loop(w, Tail(conns), sid, b64)
             ELSE IF ~HaveDesc(w, sid) THEN w
             ELSE IF ~hs_client_any_intro_points_usable(w.ipfc, sid, w.cache[sid])
             THEN desc_has_arrived_loop(
                      note_connection_attempt_succeeded(
                          [w EXCEPT !.streams[t] = connection_mark_unattached_ap(
                                        st, END_STREAM_REASON_RESOLVEFAILED)],
                          st.sid, b64),
                      Tail(conns), sid, b64)
             ELSE desc_has_arrived_loop(
                      [w EXCEPT !.streams[t] =
                          [st EXCEPT !.timestamp_created = TIME_DESC_ARRIVED,
                                     !.timestamp_last_read_allowed = TIME_DESC_ARRIVED,
                                     !.timestamp_last_write_allowed = TIME_DESC_ARRIVED,
                                     !.state = AP_CONN_STATE_CIRCUIT_WAIT,
                                     !.pending = TRUE]],
                      Tail(conns), sid, b64)

\* hs_client_desc_has_arrived(), with the timestamps of the woken streams
\* left as they were.
RECURSIVE desc_has_arrived_loop_stale(_, _, _, _)
desc_has_arrived_loop_stale(w, conns, sid, b64) ==
    IF Len(conns) = 0 THEN w
    ELSE LET t == Head(conns)
             st == w.streams[t]
         IN  IF st.sid = NoIdent \/ st.sid # sid
             THEN desc_has_arrived_loop_stale(w, Tail(conns), sid, b64)
             ELSE IF ~HaveDesc(w, sid) THEN w
             ELSE IF ~hs_client_any_intro_points_usable(w.ipfc, sid, w.cache[sid])
             THEN desc_has_arrived_loop_stale(
                      note_connection_attempt_succeeded(
                          [w EXCEPT !.streams[t] = connection_mark_unattached_ap(
                                        st, END_STREAM_REASON_RESOLVEFAILED)],
                          st.sid, b64),
                      Tail(conns), sid, b64)
             ELSE desc_has_arrived_loop_stale(
                      [w EXCEPT !.streams[t] =
                          [st EXCEPT !.state = AP_CONN_STATE_CIRCUIT_WAIT,
                                     !.pending = TRUE]],
                      Tail(conns), sid, b64)

hs_client_desc_has_arrived_stale(w, sid, b64) ==
    desc_has_arrived_loop_stale(
        w, ap_list_by_type_state(w.streams, AP_CONN_STATE_RENDDESC_WAIT), sid,
        b64)

hs_client_desc_has_arrived(w, sid, b64) ==
    desc_has_arrived_loop(
        w, ap_list_by_type_state(w.streams, AP_CONN_STATE_RENDDESC_WAIT), sid,
        b64)

\* The loop of retry_all_socks_conn_waiting_for_desc(), without the look at
\* marked_for_close.
RECURSIVE retry_loop_marked_too(_, _, _, _)
retry_loop_marked_too(w, conns, env, calls) ==
    IF Len(conns) = 0 THEN [w |-> w, calls |-> calls]
    ELSE LET t == Head(conns)
             st == w.streams[t]
         IN  IF st.sid = NoIdent
             THEN retry_loop_marked_too(w, Tail(conns), env, calls)
             ELSE LET r == hs_client_refetch_hsdesc(w, st.sid, env) IN
                  retry_loop_marked_too(r.w, Tail(conns), env,
                                        Append(calls, [t |-> t, sid |-> st.sid,
                                                       status |-> r.status]))

\* The loop of retry_all_socks_conn_waiting_for_desc(); calls collects the
\* refetch calls made, with the status each returned.
RECURSIVE retry_loop(_, _, _, _)
retry_loop(w, conns, env, calls) ==
    IF Len(conns) = 0 THEN [w |-> w, calls |-> calls]
    ELSE LET t == Head(conns)
             st == w.streams[t]
         IN  IF st.sid = NoIdent THEN retry_loop(w, Tail(conns), env, calls)
             ELSE IF st.marked THEN retry_loop(w, Tail(conns), env, calls)
             ELSE LET r == hs_client_refetch_hsdesc(w, st.sid, env) IN
                  retry_loop(r.w, Tail(conns), env,
                             Append(calls, [t |-> t, sid |-> st.sid,
                                            status |-> r.status]))

retry_all_socks_conn_waiting_for_desc(w, env) ==
    retry_loop(w, ap_list_by_type_state(w.streams, AP_CONN_STATE_RENDDESC_WAIT),
               env, <<>>)

\* hs_client_purge_state(), without hs_purge_last_hid_serv_requests().
hs_client_purge_state_keeps_requests(w) ==
    [cancel_descriptor_fetches(w) EXCEPT !.ipfc = EmptyMap, !.cache = EmptyMap]

\* hs_client_purge_state(): cancel the fetches, purge the intro-point state
\* cache, the descriptor cache and the HSDir request cache.
hs_client_purge_state(w) ==
    [cancel_descriptor_fetches(w) EXCEPT
        !.ipfc = EmptyMap, !.cache = EmptyMap, !.hsReqs = {}]

(***************************************************************************)
(* The callbacks of the file as actions.                                   *)
(***************************************************************************)
\* The services a stream slot can ask for.
StreamServices(t) == IF t = "t1" THEN {"s1"} ELSE Services
\* The service the circuit pair is built for.
CircServices == {"s1"}

\* The value of last after a step that is no callback of the file.
EnvLast == [op |-> "none"]

\* What happened to the circuit pair since INTRODUCE1 was last sent on it.
\*   seq    "sent", then "A" (INTRODUCE_ACK success) and "R" (the service's
\*          RENDEZVOUS2) in the order they were delivered: "A", "R", "AR",
\*          "RA"; "off" when anything else happened to one of the circuits
\*   intro  the introduction circuit of the pair is still in its slot
\*   sent   an INTRODUCE1 cell was sent for the rendezvous circuit
\*   desc   the cached descriptor of the service when the cell was sent
MonOff == [seq |-> "off", intro |-> FALSE, sent |-> FALSE, desc |-> <<>>]
MonSeq(q, e) ==
    CASE e = "ack_success" ->
            IF q = "sent" THEN "A" ELSE IF q = "R" THEN "RA" ELSE "off"
      [] e = "r2_service" ->
            IF q = "sent" THEN "R" ELSE IF q = "A" THEN "AR" ELSE "off"
      [] OTHER -> "off"
\* An event on the rendezvous circuit.
MonRend(m, e) ==
    LET q == MonSeq(m.seq, e) IN
    [m EXCEPT !.seq = q, !.intro = IF q = "off" THEN FALSE ELSE @]
\* An event on the introduction circuit in the slot.
MonIntro(m, e) ==
    IF ~m.intro THEN m
    ELSE IF e = "freed" THEN [m EXCEPT !.intro = FALSE]
    ELSE MonRend(m, e)

LiveStreamWaitingCircuit(sid) ==
    \E t \in StreamIds :
        /\ streams[t].sid = sid
        /\ streams[t].state = AP_CONN_STATE_CIRCUIT_WAIT
        /\ ~streams[t].marked

\* hs_client_refetch_hsdesc(), called for a service by the stream driver.
Refetch(sid) ==
    \E env \in Envs :
        LET r == hs_client_refetch_hsdesc(World, sid, env) IN
        Apply(r.w, [op |-> "refetch", sid |-> sid, ret |-> r.status,
                    env |-> env], mon)

\* The same call, under every combination of the inputs.
RefetchAnyEnv(sid) ==
    \E env \in AllEnvs :
        LET r == hs_client_refetch_hsdesc(World, sid, env) IN
        Apply(r.w, [op |-> "refetch", sid |-> sid, ret |-> r.status,
                    env |-> env], mon)

\* hs_client_dir_info_changed()
DirInfoChanged ==
    \E env \in Envs :
        LET r == retry_all_socks_conn_waiting_for_desc(World, env) IN
        Apply(r.w,
              [op |-> "dir_info_changed",
               conns |-> ap_list_by_type_state(streams,
                                               AP_CONN_STATE_RENDDESC_WAIT),
               calls |-> r.calls,
               have_desc |-> \E i \in 1..Len(r.calls) :
                                 r.calls[i].status = FETCH_HAVE_DESC],
              mon)

\* hs_client_purge_state(), on SIGNAL NEWNYM.  The directory connections
\* that exist when it returns are remembered as older than the NEWNYM.
PurgeState ==
    Apply([hs_client_purge_state(World) EXCEPT
              !.dirConns = [d \in DOMAIN @ |-> [@[d] EXCEPT !.newnym = TRUE]]],
          [op |-> "purge_state",
           purged |-> [ipfc |-> ipfc # EmptyMap, cache |-> cache # EmptyMap,
                       hsReqs |-> hsReqs # {}]],
          mon)

\* The directory subsystem stores a fetched descriptor in the client cache
\* and calls hs_client_desc_has_arrived().
desc_stored(w, sid, desc, b64) ==
    hs_client_desc_has_arrived(
        [w EXCEPT !.cache = [x \in DOMAIN w.cache \cup {sid} |->
                                IF x = sid THEN desc ELSE w.cache[x]]],
        sid, b64)

\* The outcomes of ed25519_public_to_base64() in purge_hid_serv_request()
\* while a descriptor arrives: it is called only when a stream of the
\* service waits for a descriptor that has no usable intro point.
ArrivalInputs(sid, desc) ==
    IF /\ \E t \in StreamIds : /\ streams[t].sid = sid
                               /\ streams[t].state = AP_CONN_STATE_RENDDESC_WAIT
                               /\ ~streams[t].marked
       /\ ~hs_client_any_intro_points_usable(ipfc, sid, desc)
    THEN BOOLEAN ELSE {TRUE}

\* connection_free() of a directory connection.
dir_conn_free(w, d) ==
    [w EXCEPT !.dirConns = [x \in DOMAIN w.dirConns \ {d} |-> w.dirConns[x]]]

\* A fetch ends with a descriptor; the directory subsystem then closes and
\* frees the connection.
DescFetched(d, desc) ==
    /\ d \in DOMAIN dirConns
    /\ ~dirConns[d].marked
    /\ dirConns[d].state = DIR_CONN_STATE_CLIENT_READING
    /\ LET sid == dirConns[d].sid IN
       \E b64 \in ArrivalInputs(sid, desc) :
           Apply(dir_conn_free(desc_stored(World, sid, desc, b64), d),
                 [op |-> "desc_has_arrived", sid |-> sid], mon)

\* The same, on a directory connection that is not followed.
DescArrived(sid, desc) ==
    \E b64 \in ArrivalInputs(sid, desc) :
        Apply(desc_stored(World, sid, desc, b64),
              [op |-> "desc_has_arrived", sid |-> sid], mon)

\* A fetch ends without a descriptor; the connection is closed and freed.
DirFetchFailed(d) ==
    /\ d \in DOMAIN dirConns
    /\ ~dirConns[d].marked
    /\ Apply(dir_conn_free(World, d), EnvLast, mon)

\* The request was written; the connection now reads the answer.
DirConnProgress(d) ==
    /\ d \in DOMAIN dirConns
    /\ ~dirConns[d].marked
    /\ dirConns[d].state = DIR_CONN_STATE_CLIENT_SENDING
    /\ Apply([World EXCEPT !.dirConns[d].state = DIR_CONN_STATE_CLIENT_READING],
             EnvLast, mon)

\* A SOCKS request for an onion address: the stream waits for a circuit when
\* a usable descriptor is cached, else for the descriptor.
NewStream(t, sid) ==
    /\ streams[t] = NoStream
    /\ LET have == /\ sid \in DOMAIN cache
                   /\ hs_client_any_intro_points_usable(ipfc, sid, cache[sid])
       IN  Apply([World EXCEPT !.streams[t] =
                     [NoStream EXCEPT
                        !.sid = sid,
                        !.state = IF have THEN AP_CONN_STATE_CIRCUIT_WAIT
                                  ELSE AP_CONN_STATE_RENDDESC_WAIT,
                        !.pending = have]],
                 EnvLast, mon)

\* The application gives up: the stream is closed and freed.
StreamEnvClose(t) ==
    /\ streams[t] # NoStream
    /\ ~streams[t].marked
    /\ Apply([World EXCEPT !.streams[t] = NoStream], EnvLast, mon)

\* The main loop frees a stream marked for close.
StreamFreed(t) ==
    /\ streams[t].marked
    /\ Apply([World EXCEPT !.streams[t] = NoStream],
             EnvLast, mon)

\* The descriptor of a service leaves the cache (it expired).
CacheRemove(sid) ==
    /\ sid \in DOMAIN cache
    /\ Apply([World EXCEPT !.cache = [x \in DOMAIN cache \ {sid} |-> cache[x]]],
             EnvLast, mon)

\* An entry of the failure cache reaches the end of its lifetime.
IpfcExpire(k) ==
    /\ k \in DOMAIN ipfc
    /\ Apply([World EXCEPT !.ipfc = [x \in DOMAIN ipfc \ {k} |-> ipfc[x]]],
             EnvLast, mon)

\* An intro point of the cached descriptor refused an introduction on a
\* circuit that is not followed: handle_introduce_ack_bad() notes the failure.
IpfcNote(k) ==
    /\ k[1] \in DOMAIN cache
    /\ \E i \in 1..Len(cache[k[1]]) : cache[k[1]][i].auth_key = k[2]
    /\ Apply([World EXCEPT !.ipfc = hs_cache_client_intro_state_note(
                                        @, k[1], k[2],
                                        "INTRO_POINT_FAILURE_GENERIC")],
             EnvLast, mon)

\* The kinds of failure hs_cache_client_intro_state_note() is called with.
IntroPointFailures ==
    {"INTRO_POINT_FAILURE_GENERIC", "INTRO_POINT_FAILURE_TIMEOUT",
     "INTRO_POINT_FAILURE_UNREACHABLE"}

\* A failure of some kind is noted for an intro point of a service.
IntroStateNote(k, kind) ==
    /\ IF kind = "INTRO_POINT_FAILURE_UNREACHABLE" /\ k \in DOMAIN ipfc
       THEN ipfc[k].unreachable_count < MaxUnreachableCount
       ELSE TRUE
    /\ Apply([World EXCEPT !.ipfc = hs_cache_client_intro_state_note(
                                        @, k[1], k[2], kind)],
             EnvLast, mon)

\* intro_point_is_usable() is asked about an intro point of a service.
IntroPointIsUsable(sid, ip) ==
    Apply(World,
          [op |-> "intro_point_is_usable", sid |-> sid, auth |-> ip.auth_key,
           ret |-> intro_point_is_usable(ipfc, sid, ip)],
          mon)

\* client_get_random_intro() is asked for an intro point of a service under
\* some ExcludeNodes and StrictNodes.
ClientGetRandomIntro(sid, excl, strict) ==
    \E ei \in client_get_random_intro(World, sid, excl, strict) :
        Apply(World,
              [op |-> "client_get_random_intro", sid |-> sid, excl |-> excl,
               strict |-> strict, ei |-> ei],
              mon)

(***************************************************************************)
(* Circuit callbacks.                                                      *)
(***************************************************************************)
\* The values of ExcludeNodes tried, as sets of relay identities.
ExcludeChoices == {{}, {"l2"}}

\* The stream driver launches an introduction circuit to an intro point
\* picked by client_get_random_intro().
LaunchIntro(sid) ==
    /\ intro.st = "none"
    /\ LiveStreamWaitingCircuit(sid)
    /\ \E excl \in ExcludeChoices, strict \in BOOLEAN :
       \E ei \in client_get_random_intro(World, sid, excl, strict) \ {NoEI} :
           Apply([World EXCEPT !.intro =
                     [NoIntro EXCEPT !.st = "building", !.sid = sid,
                                     !.exit = ei.legacy_id, !.sel = ei.from,
                                     !.relay_early = MaxRelayEarly]],
                 EnvLast, mon)

\* The stream driver launches a rendezvous circuit with a fresh cookie and a
\* fresh ephemeral keypair.
LaunchRend(sid) ==
    /\ rend.st = "none"
    /\ LiveStreamWaitingCircuit(sid)
    /\ LET fresh == Cookies \ {intro.cookie}
           cookie == CHOOSE c \in fresh : \A c2 \in fresh : CookieRank(c) <= CookieRank(c2)
       IN  Apply([World EXCEPT !.rend =
                     [NoRend EXCEPT !.st = "building", !.sid = sid,
                                    !.cookie = cookie]],
                 EnvLast, MonOff)

\* hs_client_circuit_has_opened() on the introduction circuit; also run when
\* the circuit finished extending to a new intro point.
IntroCircOpened ==
    /\ intro.st = "building"
    /\ ~intro.marked
    /\ intro.purpose = C_INTRODUCING
    /\ Apply(client_intro_circ_has_opened([World EXCEPT !.intro.st = "open"]),
             [op |-> "intro_circ_has_opened"], MonIntro(mon, "other"))

\* hs_client_circuit_has_opened() on the rendezvous circuit.
RendCircOpened ==
    /\ rend.st = "building"
    /\ ~rend.marked
    /\ rend.purpose = C_ESTABLISH_REND
    /\ \E rp_ok \in BOOLEAN :
       \E est_ok \in IF rp_ok THEN BOOLEAN ELSE {FALSE} :
           Apply(client_rendezvous_circ_has_opened(
                     [World EXCEPT !.rend.st = "open"], rp_ok, est_ok),
                 [op |-> "rend_circ_has_opened", rp_ok |-> rp_ok,
                  sent |-> rp_ok /\ est_ok],
                 MonRend(mon, "other"))

\* hs_client_receive_rendezvous_acked(): a RENDEZVOUS_ESTABLISHED cell.
ReceiveRendezvousAcked ==
    /\ rend.st = "open"
    /\ ~rend.marked
    /\ LET r == hs_client_receive_rendezvous_acked(World) IN
       Apply(r.w, [op |-> "receive_rendezvous_acked", ret |-> r.ret],
             MonRend(mon, "other"))

\* hs_client_send_introduce1(), called by the stream driver with an open
\* introduction circuit and an established rendezvous circuit.
SendIntroduce1 ==
    /\ intro.st = "open" /\ ~intro.marked /\ intro.purpose = C_INTRODUCING
    /\ rend.st = "open" /\ ~rend.marked /\ rend.purpose = C_REND_READY
    /\ rend.sid = intro.sid
    /\ LiveStreamWaitingCircuit(intro.sid)
    /\ \E env \in EnvsNoLaunch, send_ok \in BOOLEAN :
           LET r == send_introduce1(World, env, send_ok) IN
           Apply(r.w,
                 [op |-> "send_introduce1", ret |-> r.ret, refetch |-> r.refetch,
                  tx |-> r.tx],
                 IF r.ret = 0
                 THEN [seq |-> "sent", intro |-> TRUE, sent |-> TRUE,
                       desc |-> cache[intro.sid]]
                 ELSE MonRend(mon, "other"))

\* The options and the outcome of the extension an INTRODUCE_ACK is handled
\* under; they are read only when a refusal is handled on a circuit waiting
\* for its acknowledgement, and take one value otherwise.
AckInputs(c, status) ==
    IF /\ c.purpose = C_INTRODUCE_ACK_WAIT
       /\ status \in {ACK_FAILURE, ACK_BADFMT, ACK_NORELAY}
    THEN [excl : ExcludeChoices, strict : BOOLEAN, extend_ok : BOOLEAN]
    ELSE {[excl |-> {}, strict |-> FALSE, extend_ok |-> TRUE]}

\* hs_client_receive_introduce_ack(): an INTRODUCE_ACK cell on the
\* introduction circuit, also one that arrives after the circuit was marked
\* for close and before it is freed.
ReceiveIntroduceAck(status) ==
    /\ intro.st = "open"
    /\ \E in \in AckInputs(intro, status) :
       \E r \in hs_client_receive_introduce_ack(World, status, in.excl,
                                                in.strict, in.extend_ok) :
           Apply(r.w,
                 [op |-> "receive_introduce_ack", status |-> status,
                  ret |-> r.ret, ei |-> r.ei, ext |-> r.ext],
                 IF intro.marked THEN mon
                 ELSE MonIntro(mon, IF status = ACK_SUCCESS THEN "ack_success"
                                    ELSE "other"))

\* hs_client_receive_rendezvous2(): a RENDEZVOUS2 cell on the rendezvous
\* circuit.
ReceiveRendezvous2(cell) ==
    /\ rend.st = "open"
    /\ ~rend.marked
    /\ LET r == hs_client_receive_rendezvous2(World, cell) IN
       Apply(r.w,
             [op |-> "receive_rendezvous2", ret |-> r.ret,
              len_ok |-> cell.len_ok,
              mac_ok |-> /\ cell.len_ok
                         /\ cell.auth_mac =
                                NtorMac(rend.auth, ClientKp(rend.cookie),
                                        rend.enc, cell.server_pk)],
             MonRend(mon, IF ServiceCell(rend, cell) THEN "r2_service"
                          ELSE "other"))

\* A circuit is closed from outside this file (it timed out or collapsed)
\* and freed.
IntroCircClosed ==
    /\ intro.st # "none"
    /\ ~intro.marked
    /\ Apply([World EXCEPT !.intro = NoIntro], EnvLast, MonIntro(mon, "other"))

RendCircClosed ==
    /\ rend.st # "none"
    /\ ~rend.marked
    /\ Apply([World EXCEPT !.rend = NoRend], EnvLast, MonOff)

\* The main loop frees a circuit marked for close.
IntroCircFreed ==
    /\ intro.marked
    /\ Apply([World EXCEPT !.intro = NoIntro], EnvLast, MonIntro(mon, "freed"))

RendCircFreed ==
    /\ rend.marked
    /\ Apply([World EXCEPT !.rend = NoRend], EnvLast, MonOff)

\* hs_client_note_connection_attempt_succeeded(): a stream was attached to
\* the joined rendezvous circuit.
ConnectionAttemptSucceeded(t) ==
    /\ streams[t].state = AP_CONN_STATE_CIRCUIT_WAIT
    /\ ~streams[t].marked
    /\ rend.st = "open" /\ ~rend.marked /\ rend.purpose = C_REND_JOINED
    /\ rend.sid = streams[t].sid
    /\ \E b64 \in BOOLEAN :
           LET w == note_connection_attempt_succeeded(
                        [World EXCEPT !.streams[t].state = "AP_CONN_STATE_OPEN",
                                      !.streams[t].pending = FALSE],
                        streams[t].sid, b64)
           IN  Apply(w,
                     [op |-> "note_connection_attempt_succeeded",
                      sid |-> streams[t].sid, b64 |-> b64,
                      purged |-> hsReqs \ w.hsReqs # {}],
                     mon)

\* The same, for a stream attached to a rendezvous circuit that is not
\* followed.
ConnectionAttemptSucceededUnfollowed(t) ==
    /\ streams[t].state = AP_CONN_STATE_CIRCUIT_WAIT
    /\ ~streams[t].marked
    /\ \E b64 \in BOOLEAN :
           LET w == note_connection_attempt_succeeded(
                        [World EXCEPT !.streams[t].state = "AP_CONN_STATE_OPEN",
                                      !.streams[t].pending = FALSE],
                        streams[t].sid, b64)
           IN  Apply(w,
                     [op |-> "note_connection_attempt_succeeded",
                      sid |-> streams[t].sid, b64 |-> b64,
                      purged |-> hsReqs \ w.hsReqs # {}],
                     mon)

\* hs_get_time_period_num(): a new time period begins.
TimePeriodChanges ==
    /\ period < MaxPeriod
    /\ Apply([World EXCEPT !.period = @ + 1], EnvLast, mon)

Init ==
    /\ streams = [t \in StreamIds |-> NoStream]
    /\ dirConns = EmptyMap
    /\ hsReqs = {}
    /\ cache = EmptyMap
    /\ ipfc = EmptyMap
    /\ intro = NoIntro
    /\ rend = NoRend
    /\ period = 0
    /\ last = [op |-> "init"]
    /\ mon = MonOff

\* The descriptors fetched while the fetch scheduler is followed, and those
\* arriving while the circuit pair is followed.
FetchDescriptors == {DescTwo, DescNoIntro}
CircDescriptors == {DescTwo, DescRotated}
\* The streams followed together with the circuit pair.
CircStreamIds ==
    {StreamOrder[i] : i \in {j \in 1..Len(StreamOrder) : j <= MaxCircStreams}}

\* The streams followed together with the fetch scheduler.
FetchStreamIds == {StreamOrder[1], StreamOrder[2]}

\* The fetch scheduler and the streams.
Next ==
    \/ \E t \in FetchStreamIds : \E sid \in StreamServices(t) : NewStream(t, sid)
    \/ \E t \in FetchStreamIds : StreamEnvClose(t)
    \/ \E t \in FetchStreamIds : StreamFreed(t)
    \/ \E sid \in Services : Refetch(sid)
    \/ DirInfoChanged
    \/ PurgeState
    \/ \E d \in DirIds, desc \in FetchDescriptors : DescFetched(d, desc)
    \/ \E d \in DirIds : DirFetchFailed(d)
    \/ \E d \in DirIds : DirConnProgress(d)
    \/ \E sid \in Services : CacheRemove(sid)

Spec == Init /\ [][Next]_vars

\* The circuit pair of one service, its streams, the descriptor cache and the
\* failure cache.
NextCirc ==
    \/ \E t \in CircStreamIds, sid \in CircServices : NewStream(t, sid)
    \/ \E t \in CircStreamIds : StreamEnvClose(t)
    \/ \E t \in CircStreamIds : StreamFreed(t)
    \/ \E sid \in CircServices, desc \in CircDescriptors : DescArrived(sid, desc)
    \/ \E sid \in CircServices : CacheRemove(sid)
    \/ PurgeState
    \/ \E k \in CircServices \X AuthKeys : IpfcExpire(k)
    \/ \E sid \in CircServices : LaunchIntro(sid)
    \/ \E sid \in CircServices : LaunchRend(sid)
    \/ IntroCircOpened
    \/ RendCircOpened
    \/ ReceiveRendezvousAcked
    \/ SendIntroduce1
    \/ \E status \in AckStatuses : ReceiveIntroduceAck(status)
    \/ \E cell \in Rendezvous2Cells(rend) : ReceiveRendezvous2(cell)
    \/ IntroCircClosed
    \/ RendCircClosed
    \/ IntroCircFreed
    \/ RendCircFreed
    \/ \E t \in CircStreamIds : ConnectionAttemptSucceeded(t)

SpecCirc == Init /\ [][NextCirc]_vars

\* The fetch scheduler of one service under every input, with the failure
\* cache.
NextFetch ==
    \/ \E t \in CircStreamIds, sid \in CircServices : NewStream(t, sid)
    \/ \E t \in CircStreamIds : StreamEnvClose(t)
    \/ \E t \in CircStreamIds : StreamFreed(t)
    \/ \E sid \in CircServices : RefetchAnyEnv(sid)
    \/ DirInfoChanged
    \/ PurgeState
    \/ \E d \in DirIds, desc \in FetchDescriptors : DescFetched(d, desc)
    \/ \E d \in DirIds : DirFetchFailed(d)
    \/ \E d \in DirIds : DirConnProgress(d)
    \/ \E sid \in CircServices : CacheRemove(sid)
    \/ \E k \in CircServices \X AuthKeys : IpfcNote(k)
    \/ \E k \in CircServices \X AuthKeys : IpfcExpire(k)

SpecFetch == Init /\ [][NextFetch]_vars

\* The streams of one service from the request to the connection, over a
\* change of time period.
NextConnect ==
    \/ \E t \in CircStreamIds, sid \in CircServices : NewStream(t, sid)
    \/ \E t \in CircStreamIds : StreamEnvClose(t)
    \/ \E t \in CircStreamIds : StreamFreed(t)
    \/ \E sid \in CircServices : Refetch(sid)
    \/ \E d \in DirIds, desc \in FetchDescriptors : DescFetched(d, desc)
    \/ \E d \in DirIds : DirFetchFailed(d)
    \/ \E d \in DirIds : DirConnProgress(d)
    \/ \E k \in CircServices \X AuthKeys : IpfcNote(k)
    \/ \E k \in CircServices \X AuthKeys : IpfcExpire(k)
    \/ \E t \in CircStreamIds : ConnectionAttemptSucceededUnfollowed(t)
    \/ TimePeriodChanges

SpecConnect == Init /\ [][NextConnect]_vars

\* The descriptors, intro points and values of ExcludeNodes the selection of
\* intro points is followed with: up to two intro points, each with link
\* specifiers that translate to an extend_info_t or not.
SelectDescriptors ==
    {<<>>}
    \cup {<<IP("a1", "e1", "l1", x)>> : x \in BOOLEAN}
    \cup {<<IP("a1", "e1", "l1", x), IP("a2", "e2", "l2", y)>> :
             x \in BOOLEAN, y \in BOOLEAN}
SelectIntroPoints == {IP("a1", "e1", "l1", TRUE), IP("a2", "e2", "l2", TRUE)}
SelectExcludes == SUBSET {"l1", "l2"}

\* The selection of an intro point of one service under every descriptor,
\* failure cache and option.
NextSelect ==
    \/ \E sid \in CircServices, desc \in SelectDescriptors : DescArrived(sid, desc)
    \/ \E sid \in CircServices : CacheRemove(sid)
    \/ \E k \in CircServices \X AuthKeys, kind \in IntroPointFailures :
           IntroStateNote(k, kind)
    \/ \E k \in CircServices \X AuthKeys : IpfcExpire(k)
    \/ \E sid \in CircServices, ip \in SelectIntroPoints : IntroPointIsUsable(sid, ip)
    \/ \E sid \in CircServices, excl \in SelectExcludes, strict \in BOOLEAN :
           ClientGetRandomIntro(sid, excl, strict)

SpecSelect == Init /\ [][NextSelect]_vars

(***************************************************************************)
(* Properties of the fetch scheduler.                                      *)
(***************************************************************************)
\* Streams of the service that wait for its descriptor and are not closed.
ParkedStreams(sid) ==
    {t \in StreamIds : /\ streams[t].sid = sid
                       /\ streams[t].state = AP_CONN_STATE_RENDDESC_WAIT
                       /\ ~streams[t].marked}

\* Directory requests for the descriptor of the service that are in flight.
InFlightFetches(sid) ==
    {d \in DOMAIN dirConns : /\ dirConns[d].sid = sid
                             /\ dirConns[d].purpose = DIR_PURPOSE_FETCH_HSDESC
                             /\ ~dirConns[d].marked}

\* C1: when hs_client_refetch_hsdesc() has just returned NOT_ALLOWED,
\* NO_HSDIRS or ERROR for a service, no stream of that service is still
\* parked waiting for the descriptor: every stream of the service in
\* RENDDESC_WAIT is marked for close with reason RESOLVEFAILED.
C1_RefetchFailureClosesStreams ==
    (/\ last.op = "refetch"
     /\ last.ret \in {FETCH_NOT_ALLOWED, FETCH_NO_HSDIRS, FETCH_ERROR})
    => /\ ParkedStreams(last.sid) = {}
       /\ \A t \in StreamIds :
              (/\ streams[t].sid = last.sid
               /\ streams[t].state = AP_CONN_STATE_RENDDESC_WAIT)
              => streams[t].reason = END_STREAM_REASON_RESOLVEFAILED

\* C2: when hs_client_purge_state() has just run, every directory connection
\* whose purpose is fetching a service descriptor is marked for close, in
\* whatever state the connection is.
C2_PurgeCancelsFetches ==
    last.op = "purge_state"
    => \A d \in DOMAIN dirConns :
           dirConns[d].purpose = DIR_PURPOSE_FETCH_HSDESC => dirConns[d].marked

\* C3: in every reachable state each service has at most one descriptor
\* fetch in flight.
C3_OneFetchPerService ==
    \A sid \in Services : Cardinality(InFlightFetches(sid)) <= 1

\* A refetch was just refused as PENDING while a fetch is in flight for each
\* of the two services.
C3_Witness ==
    /\ last.op = "refetch"
    /\ last.ret = FETCH_PENDING
    /\ \A sid \in Services : Cardinality(InFlightFetches(sid)) = 1

(***************************************************************************)
(* Properties of the introduction and rendezvous state machines.           *)
(***************************************************************************)
LiveIntro == intro.st # "none" /\ ~intro.marked
LiveRend == rend.st # "none" /\ ~rend.marked

\* C4: on a circuit pair on which INTRODUCE1 was sent (with the rendezvous
\* circuit in REND_READY), once an INTRODUCE_ACK with status success and the
\* service's RENDEZVOUS2 have both been delivered, in either order, the
\* rendezvous circuit is in REND_JOINED and not marked for close, and the
\* introduction circuit, as long as it is not freed, has purpose
\* INTRODUCE_ACKED and is marked for close with reason FINISHED.
C4_BothOrdersJoin ==
    mon.seq \in {"AR", "RA"}
    => /\ rend.st = "open"
       /\ rend.purpose = C_REND_JOINED
       /\ ~rend.marked
       /\ mon.intro => /\ intro.purpose = C_INTRODUCE_ACKED
                       /\ intro.marked
                       /\ intro.reason = REASON_FINISHED

\* The RENDEZVOUS2 cell came first, the INTRODUCE_ACK second, and the
\* introduction circuit is still there.
C4_Witness ==
    /\ mon.seq = "RA"
    /\ mon.intro
    /\ last.op = "receive_introduce_ack"
    /\ rend.purpose = C_REND_JOINED

\* C5: a RENDEZVOUS2 cell is accepted (return 0, keys installed) only when
\* the MAC it carries is the MAC computed from the keys of the circuit's
\* ident; when the MAC differs the circuit is marked for close with reason
\* TORPROTOCOL, the end-to-end keys are those of before the cell and the
\* return value is -1.
C5_Rendezvous2NeedsMac ==
    [][last'.op = "receive_rendezvous2"
       => /\ last'.ret = 0
             => /\ last'.mac_ok
                /\ rend'.e2e # NoKeys
                /\ rend'.e2e # rend.e2e
          /\ ~last'.mac_ok
             => /\ last'.ret = -1
                /\ rend'.marked
                /\ rend'.reason = REASON_TORPROTOCOL
                /\ rend'.e2e = rend.e2e]_vars

\* A parsable cell with a wrong MAC arrived on a circuit waiting for
\* RENDEZVOUS2 and was refused.
C5_Witness ==
    /\ last.op = "receive_rendezvous2"
    /\ last.len_ok
    /\ ~last.mac_ok
    /\ rend.purpose \in {C_REND_READY, C_REND_READY_INTRO_ACKED}
    /\ rend.marked
    /\ rend.e2e = NoKeys

\* C6: a live rendezvous circuit in REND_READY_INTRO_ACKED or REND_JOINED
\* had an INTRODUCE1 sent for it, and its ident holds the authentication key
\* and the encryption key of one intro point of the descriptor that was
\* cached when that cell was sent.
C6_RendKeysFromDescriptor ==
    (LiveRend /\ rend.purpose \in {C_REND_READY_INTRO_ACKED, C_REND_JOINED})
    => /\ mon.sent
       /\ rend.enc # ZeroKey
       /\ \E i \in 1..Len(mon.desc) :
              /\ mon.desc[i].auth_key = rend.auth
              /\ mon.desc[i].enc_key = rend.enc

\* The circuit is joined with the key of the descriptor of the time of the
\* INTRODUCE1 cell, and the cache holds a newer descriptor with another key.
C6_Witness ==
    /\ LiveRend
    /\ rend.purpose = C_REND_JOINED
    /\ mon.desc = DescTwo
    /\ rend.enc = "e1"
    /\ rend.sid \in DOMAIN cache
    /\ cache[rend.sid] = DescRotated

\* C7: a live introduction circuit has its service identity set, and its
\* intro point authentication key too when its purpose is
\* INTRODUCE_ACK_WAIT or INTRODUCE_ACKED.
C7_IntroIdentSet ==
    LiveIntro
    => /\ intro.sid # NoIdent
       /\ intro.purpose \in {C_INTRODUCE_ACK_WAIT, C_INTRODUCE_ACKED}
          => intro.auth # ZeroKey

\* The circuit opened while the cache held no descriptor of the service: the
\* authentication key is not set and the circuit is live.
C7_Witness ==
    /\ last.op = "intro_circ_has_opened"
    /\ LiveIntro
    /\ intro.st = "open"
    /\ intro.sid \notin DOMAIN cache
    /\ intro.auth = ZeroKey

\* What send_introduce1() reads before it is called: the descriptor of the
\* service is missing from the cache or has no intro point the failure cache
\* lets through.
NoUsableDescriptor ==
    \/ intro.sid \notin DOMAIN cache
    \/ ~\E i \in 1..Len(cache[intro.sid]) :
           LET k == <<intro.sid, cache[intro.sid][i].auth_key>> IN
           \/ k \notin DOMAIN ipfc
           \/ /\ ~ipfc[k].error
              /\ ~ipfc[k].timed_out
              /\ ipfc[k].unreachable_count < MAX_INTRO_POINT_REACHABILITY_FAILURES

\* The intro circuit passes the validation of send_introduce1().
IntroCircValid ==
    /\ intro.purpose \in {C_INTRODUCING, C_INTRODUCE_ACK_WAIT, C_INTRODUCE_ACKED}
    /\ intro.sid # NoIdent
    /\ intro.auth # ZeroKey

\* The cached descriptor has no intro point with the authentication key of
\* the intro circuit.
IntroPointAbsent ==
    /\ intro.sid \in DOMAIN cache
    /\ \A i \in 1..Len(cache[intro.sid]) :
           cache[intro.sid][i].auth_key # intro.auth

\* What C8 promises of a call of send_introduce1(): the transient error, a
\* refetch, the streams of the service waiting for a circuit back to waiting
\* for the descriptor, and both circuits as they were.
TransientOutcome ==
    /\ last'.ret = -1
    /\ last'.refetch \in FetchStatuses
    /\ \A t \in StreamIds :
           (/\ streams[t].sid = intro.sid
            /\ streams[t].state = AP_CONN_STATE_CIRCUIT_WAIT)
           => streams'[t].state = AP_CONN_STATE_RENDDESC_WAIT
    /\ intro'.marked = intro.marked
    /\ intro'.purpose = intro.purpose
    /\ rend'.marked = rend.marked
    /\ rend'.purpose = rend.purpose

\* C8, as stated: whenever send_introduce1() is called and the descriptor of
\* the service is missing or has no usable intro point, it returns -1,
\* a refetch is ordered, every stream of the service waiting for a circuit
\* waits for the descriptor again, and neither circuit is marked for close
\* or changes purpose.
C8_Original ==
    [][(last'.op = "send_introduce1" /\ NoUsableDescriptor)
       => TransientOutcome]_vars

\* What C9 promises when send_introduce1() returns -2: both circuits marked
\* for close, the intro circuit not closed a second time, the failure cache
\* and the descriptor cache untouched.
PermanentOutcome ==
    /\ intro'.marked
    /\ rend'.marked
    /\ intro.marked => intro' = intro
    /\ ipfc' = ipfc
    /\ cache' = cache

\* C9, as stated: send_introduce1() returns -2 exactly when the intro circuit
\* fails validation, the intro point of the circuit is absent from the cached
\* descriptor, or the transmission fails, and then both circuits are marked
\* for close and the caches are unchanged.
C9_Original ==
    [][last'.op = "send_introduce1"
       => /\ last'.ret = -2
             <=> (~IntroCircValid \/ IntroPointAbsent \/ last'.tx = "failed")
          /\ last'.ret = -2 => PermanentOutcome]_vars

\* C9, amended: the absence of the intro point gives -2 only when the
\* circuit is valid and the descriptor has a usable intro point; without a
\* usable intro point the call returns -1.
C9_PermanentError ==
    [][last'.op = "send_introduce1"
       => /\ last'.ret = -2
             <=> \/ ~IntroCircValid
                 \/ IntroPointAbsent /\ ~NoUsableDescriptor
                 \/ last'.tx = "failed"
          /\ last'.ret = -2 => PermanentOutcome]_vars

\* The transmission failed: send_introduce1() returned -2 and both circuits
\* are marked for close, the intro circuit by hs_circ_send_introduce1().
C9_Witness ==
    /\ last.op = "send_introduce1"
    /\ last.ret = -2
    /\ last.tx = "failed"
    /\ intro.marked
    /\ rend.marked
    /\ rend.reason = REASON_INTERNAL

\* The failure cache lets the intro point through.
IpfcUsable(c, sid, auth) ==
    \/ <<sid, auth>> \notin DOMAIN c
    \/ /\ ~c[<<sid, auth>>].error
       /\ ~c[<<sid, auth>>].timed_out
       /\ c[<<sid, auth>>].unreachable_count < MAX_INTRO_POINT_REACHABILITY_FAILURES

\* An INTRODUCE_ACK refusing the introduction arrives on an intro circuit in
\* INTRODUCE_ACK_WAIT that has RELAY_EARLY cells left, while the cached
\* descriptor has a usable intro point other than the circuit's.
NackWithAlternative ==
    /\ last'.op = "receive_introduce_ack"
    /\ last'.status \in {ACK_FAILURE, ACK_BADFMT, ACK_NORELAY}
    /\ intro.purpose = C_INTRODUCE_ACK_WAIT
    /\ intro.relay_early > 0
    /\ intro.sid \in DOMAIN cache
    /\ \E i \in 1..Len(cache[intro.sid]) :
           /\ cache[intro.sid][i].auth_key # intro.auth
           /\ IpfcUsable(ipfc, intro.sid, cache[intro.sid][i].auth_key)

\* What C10 promises then: the failure noted, the intro circuit back in
\* INTRODUCING and being extended to another, usable intro point, and the
\* rendezvous circuit as it was.
ReextendOutcome ==
    /\ <<intro.sid, intro.auth>> \in DOMAIN ipfc'
    /\ ipfc'[<<intro.sid, intro.auth>>].error
    /\ intro'.purpose = C_INTRODUCING
    /\ ~intro'.marked
    /\ intro'.st = "building"
    /\ intro'.sel # intro.auth
    /\ \E i \in 1..Len(cache[intro.sid]) :
           /\ cache[intro.sid][i].auth_key = intro'.sel
           /\ cache[intro.sid][i].legacy_id = intro'.exit
           /\ IpfcUsable(ipfc', intro.sid, intro'.sel)
    /\ rend'.purpose = rend.purpose
    /\ rend'.marked = rend.marked

\* C10, as stated: a refusing INTRODUCE_ACK on a circuit in ACK_WAIT with
\* RELAY_EARLY budget, while the descriptor has another usable intro point,
\* sets the error flag of the circuit's intro point in the failure cache,
\* puts the circuit back in INTRODUCING and re-extends it to a usable intro
\* point other than the refusing one, and leaves the purpose and the close
\* status of the rendezvous circuit unchanged.
C10_Original ==
    [][NackWithAlternative => ReextendOutcome]_vars

\* C10, amended: the same when, in addition, the random selection returns an
\* intro point (it returns none when StrictNodes is set and ExcludeNodes
\* holds every usable intro point) and circuit_extend_to_new_exit() succeeds.
C10_NackReextends ==
    [][(NackWithAlternative /\ last'.ei # NoEI /\ last'.ext # "failed")
       => ReextendOutcome]_vars

\* The circuit was refused by the intro point a1 and is being extended to
\* a2; the rendezvous circuit is still ready.
C10_Witness ==
    /\ last.op = "receive_introduce_ack"
    /\ last.status = ACK_NORELAY
    /\ last.ret = 0
    /\ last.ext = "ok"
    /\ intro.st = "building"
    /\ intro.purpose = C_INTRODUCING
    /\ intro.auth = "a1"
    /\ intro.sel = "a2"
    /\ ipfc[<<intro.sid, "a1">>].error
    /\ LiveRend
    /\ rend.purpose = C_REND_READY

\* The rendezvous circuit the circuit map returns for the cookie of the intro
\* circuit: registered under it and not marked for close.
RendUnderIntroCookie ==
    /\ rend.st # "none"
    /\ rend.registered
    /\ rend.cookie = intro.cookie
    /\ ~rend.marked

\* An INTRODUCE_ACK with this status is handled on an intro circuit waiting
\* for it.
AckInAckWait(status) ==
    /\ last'.op = "receive_introduce_ack"
    /\ last'.status = status
    /\ intro.purpose = C_INTRODUCE_ACK_WAIT

\* C11: an INTRODUCE_ACK with status success on an intro circuit in
\* INTRODUCE_ACK_WAIT puts the circuit in INTRODUCE_ACKED and marks it for
\* close with reason FINISHED, whether or not a rendezvous circuit is found
\* for the cookie; the rendezvous circuit found for the cookie, when it is
\* established and not yet REND_JOINED, goes to REND_READY_INTRO_ACKED.
C11_AckSuccess ==
    [][AckInAckWait(ACK_SUCCESS)
       => /\ intro'.purpose = C_INTRODUCE_ACKED
          /\ intro'.marked
          /\ intro'.reason = REASON_FINISHED
          /\ (/\ RendUnderIntroCookie
              /\ rend.purpose \in {C_REND_READY, C_REND_READY_INTRO_ACKED})
             => /\ rend'.purpose = C_REND_READY_INTRO_ACKED
                /\ ~rend'.marked]_vars

\* The acknowledgement arrived while the rendezvous circuit was ready: the
\* intro circuit is finished and the rendezvous circuit waits for RENDEZVOUS2.
C11_Witness ==
    /\ last.op = "receive_introduce_ack"
    /\ last.status = ACK_SUCCESS
    /\ last.ret = 0
    /\ intro.purpose = C_INTRODUCE_ACKED
    /\ intro.marked
    /\ intro.reason = REASON_FINISHED
    /\ LiveRend
    /\ rend.cookie = intro.cookie
    /\ rend.purpose = C_REND_READY_INTRO_ACKED

\* An INTRODUCE_ACK is handled while the rendezvous circuit is REND_JOINED.
AckAfterJoined ==
    /\ last'.op = "receive_introduce_ack"
    /\ rend.st # "none"
    /\ rend.purpose = C_REND_JOINED

\* C12, as stated: once the rendezvous circuit is REND_JOINED, an
\* INTRODUCE_ACK of any status on the intro circuit neither changes the
\* purpose of the rendezvous circuit nor marks it for close.
C12_Original ==
    [][AckAfterJoined
       => /\ rend'.purpose = rend.purpose
          /\ rend'.marked = rend.marked]_vars

\* C12, amended: the purpose of the joined rendezvous circuit is never
\* changed by an INTRODUCE_ACK, and the circuit is left exactly as it was
\* unless the cell is a refusal (FAILURE, BADFMT, NORELAY) that ends with
\* both circuits closed (return -1); then the joined rendezvous circuit is
\* marked for close with reason FINISHED.
C12_JoinedSurvivesAck ==
    [][AckAfterJoined
       => /\ rend'.purpose = C_REND_JOINED
          /\ IF /\ last'.status \in {ACK_FAILURE, ACK_BADFMT, ACK_NORELAY}
                /\ intro.purpose = C_INTRODUCE_ACK_WAIT
                /\ last'.ret = -1
             THEN (RendUnderIntroCookie
                   => rend'.marked /\ rend'.reason = REASON_FINISHED)
             ELSE rend' = rend]_vars

\* RENDEZVOUS2 came first; the INTRODUCE_ACK with status success that
\* followed closed the intro circuit and left the joined circuit alone.
C12_Witness ==
    /\ last.op = "receive_introduce_ack"
    /\ last.status = ACK_SUCCESS
    /\ last.ret = 0
    /\ intro.marked
    /\ intro.reason = REASON_FINISHED
    /\ LiveRend
    /\ rend.purpose = C_REND_JOINED
    /\ rend.e2e # NoKeys

\* The cache holds a descriptor of the service with an intro point the
\* failure cache lets through.
UsableDescriptorCached(sid) ==
    /\ sid \in DOMAIN cache
    /\ \E i \in 1..Len(cache[sid]) :
           IpfcUsable(ipfc, sid, cache[sid][i].auth_key)

\* C13: while a descriptor fetch of a service is in flight, fetching is
\* allowed, the consensus is live, the directory information is sufficient
\* and no usable descriptor is cached, every call of
\* hs_client_refetch_hsdesc() for the service returns PENDING and leaves the
\* directory connections as they are.
C13_PendingWhileInFlight ==
    [][(/\ last'.op = "refetch"
        /\ InFlightFetches(last'.sid) # {}
        /\ last'.env.fetch
        /\ last'.env.live
        /\ last'.env.dirinfo
        /\ ~UsableDescriptorCached(last'.sid))
       => /\ last'.ret = FETCH_PENDING
          /\ dirConns' = dirConns
          /\ hsReqs' = hsReqs]_vars

\* A second refetch in a row was answered PENDING: an HSDir was on offer
\* and still one request is in flight.
C13_Witness ==
    /\ last.op = "refetch"
    /\ last.ret = FETCH_PENDING
    /\ last.env.resp # <<>>
    /\ Cardinality(InFlightFetches(last.sid)) = 1
    /\ Cardinality(DOMAIN dirConns) = 1
    /\ ParkedStreams(last.sid) # {}

(***************************************************************************)
(* Properties of the fetch scheduler under every input.                    *)
(***************************************************************************)
\* A responsible HSDir that was not recently queried for the blinded key of
\* the service is on offer.
HsDirAvailable(sid, env) ==
    /\ env.b64pick
    /\ \E i \in 1..Len(env.resp) :
           <<BlindedKey(sid, period), env.resp[i]>> \notin hsReqs

\* The status of the first pre-check that fails, "none" when all five pass.
FirstFailedPreCheck(sid, env) ==
    IF ~env.fetch THEN FETCH_NOT_ALLOWED
    ELSE IF ~env.live THEN FETCH_MISSING_INFO
    ELSE IF ~env.dirinfo THEN FETCH_MISSING_INFO
    ELSE IF UsableDescriptorCached(sid) THEN FETCH_HAVE_DESC
    ELSE IF InFlightFetches(sid) # {} THEN FETCH_PENDING
    ELSE "none"

\* A failed pre-check is returned and nothing is picked or launched.
PreCheckOutcome ==
    LET pre == FirstFailedPreCheck(last'.sid, last'.env) IN
    pre # "none" => /\ last'.ret = pre
                    /\ hsReqs' = hsReqs
                    /\ dirConns' = dirConns

C15_ParkedImpliesNoUsableDesc ==
    /\ \A t \in StreamIds :
           (/\ streams[t].state = AP_CONN_STATE_RENDDESC_WAIT
            /\ ~streams[t].marked)
           => ~UsableDescriptorCached(streams[t].sid)
    /\ last.op = "dir_info_changed" => ~last.have_desc

\* C16: when an introduction circuit opens and no descriptor of the service
\* is cached, or no intro point of the cached descriptor matches the exit the
\* circuit was built to, the circuit is marked for close with an internal
\* reason.
C16_UnmatchedIntroCircClosed ==
    [][(/\ last'.op = "intro_circ_has_opened"
        /\ \/ ~HaveDesc(World, intro.sid)
           \/ find_desc_intro_point_by_legacy_id(intro.exit,
                                                 cache[intro.sid]) = 0)
       => (intro'.marked /\ intro'.reason = REASON_INTERNAL)]_vars

\* An INTRODUCE_ACK refusing the introduction is handled on an intro circuit
\* in INTRODUCE_ACK_WAIT, so that close_or_reextend_intro_circ() runs.
CloseOrReextendRuns ==
    /\ last'.op = "receive_introduce_ack"
    /\ last'.status \in {ACK_FAILURE, ACK_BADFMT, ACK_NORELAY}
    /\ intro.purpose = C_INTRODUCE_ACK_WAIT

\* The descriptor and the failure cache close_or_reextend_intro_circ() sees
\* (the refusal already noted) leave a usable intro point.
UsableIntroPointRemains ==
    /\ intro.sid \in DOMAIN cache'
    /\ \E i \in 1..Len(cache'[intro.sid]) :
           IpfcUsable(ipfc', intro.sid, cache'[intro.sid][i].auth_key)

\* What C17 promises: the intro circuit marked for close with reason
\* FINISHED, 0 returned, the rendezvous circuit as it was.
BudgetSpentOutcome ==
    /\ intro'.marked
    /\ intro'.reason = REASON_FINISHED
    /\ last'.ret = 0
    /\ rend' = rend

\* C17, as stated: when close_or_reextend_intro_circ() runs on an intro
\* circuit with no RELAY_EARLY cell left while a usable intro point exists,
\* the intro circuit is marked for close with reason FINISHED, the call
\* returns 0 and the rendezvous circuit is not marked for close.
C17_Original ==
    [][(CloseOrReextendRuns /\ intro.relay_early = 0
        /\ UsableIntroPointRemains)
       => BudgetSpentOutcome]_vars

\* C17, amended: the same when, in addition, the random selection returns an
\* intro point (it returns none when StrictNodes is set and ExcludeNodes
\* holds every usable intro point).
C17_BudgetSpent ==
    [][(CloseOrReextendRuns /\ intro.relay_early = 0
        /\ UsableIntroPointRemains /\ last'.ei # NoEI)
       => BudgetSpentOutcome]_vars

\* The refusal came on a circuit that had been re-extended once; it is now
\* closed as finished, still in INTRODUCING, and the rendezvous circuit lives.
C17_Witness ==
    /\ last.op = "receive_introduce_ack"
    /\ last.status = ACK_FAILURE
    /\ last.ret = 0
    /\ last.ei # NoEI
    /\ last.ext = "none"
    /\ intro.relay_early = 0
    /\ intro.marked
    /\ intro.reason = REASON_FINISHED
    /\ intro.purpose = C_INTRODUCING
    /\ LiveRend

\* C18: when close_or_reextend_intro_circ() runs and the descriptor is
\* missing, or no usable intro point remains, or the re-extension fails
\* (no intro point selected, or the extension refused), the intro circuit
\* ends marked for close, the rendezvous circuit found for the cookie of the
\* intro circuit is marked for close, and -1 is returned; when no rendezvous
\* circuit is found the outcome is the same and the rendezvous side is left
\* as it was.
C18_CloseBothLegs ==
    [][(/\ CloseOrReextendRuns
        /\ \/ ~UsableIntroPointRemains
           \/ last'.ei = NoEI
           \/ last'.ext = "failed")
       => (/\ last'.ret = -1
           /\ intro'.marked
           /\ IF RendUnderIntroCookie
              THEN rend'.marked /\ rend'.reason = REASON_FINISHED
              ELSE rend' = rend)]_vars

\* A refusal closed both legs: the intro circuit as INTRODUCE_ACKED and
\* finished, the rendezvous circuit that was ready as finished.
C18_Witness ==
    /\ last.op = "receive_introduce_ack"
    /\ last.status = ACK_BADFMT
    /\ last.ret = -1
    /\ intro.marked
    /\ intro.purpose = C_INTRODUCE_ACKED
    /\ intro.reason = REASON_FINISHED
    /\ rend.marked
    /\ rend.reason = REASON_FINISHED
    /\ rend.purpose = C_REND_READY

\* C19: an INTRODUCE_ACK with status success that arrives on an intro
\* circuit already acknowledged (a second success on the same circuit)
\* changes nothing: not the purpose, the close mark or the close reason of
\* the intro circuit, not the rendezvous circuit, not the failure cache.
C19_SecondAckNoOp ==
    [][(/\ last'.op = "receive_introduce_ack"
        /\ last'.status = ACK_SUCCESS
        /\ intro.purpose = C_INTRODUCE_ACKED)
       => (/\ intro' = intro
           /\ rend' = rend
           /\ ipfc' = ipfc)]_vars

\* The second of two successes in a row on the same intro circuit: the first
\* was counted by the monitor, the circuit is still in its slot, closed as
\* finished, and the rendezvous circuit is acknowledged.
C19_Witness ==
    /\ last.op = "receive_introduce_ack"
    /\ last.status = ACK_SUCCESS
    /\ last.ret = -1
    /\ mon.intro
    /\ mon.seq = "A"
    /\ intro.purpose = C_INTRODUCE_ACKED
    /\ intro.marked
    /\ intro.reason = REASON_FINISHED
    /\ rend.purpose = C_REND_READY_INTRO_ACKED
    /\ ~rend.marked

\* C20: an INTRODUCE_ACK whose status is none of success, failure, bad
\* format and no relay, on an intro circuit in INTRODUCE_ACK_WAIT, is
\* ignored: the intro circuit stays as it was (in INTRODUCE_ACK_WAIT and not
\* marked for close), the rendezvous circuit is unchanged and no entry of
\* the failure cache is created or modified.
C20_UnknownStatusIgnored ==
    [][AckInAckWait(ACK_UNKNOWN)
       => (/\ intro' = intro
           /\ intro'.purpose = C_INTRODUCE_ACK_WAIT
           /\ ~intro'.marked
           /\ rend' = rend
           /\ ipfc' = ipfc)]_vars

\* An unknown status was just handled: -1 returned, the circuit still waits
\* for its acknowledgement and nothing was noted about its intro point.
C20_Witness ==
    /\ last.op = "receive_introduce_ack"
    /\ last.status = ACK_UNKNOWN
    /\ last.ret = -1
    /\ intro.st = "open"
    /\ intro.purpose = C_INTRODUCE_ACK_WAIT
    /\ ~intro.marked
    /\ <<intro.sid, intro.auth>> \notin DOMAIN ipfc
    /\ LiveRend

(***************************************************************************)
(* Properties of the selection of intro points.                            *)
(***************************************************************************)
\* C21: intro_point_is_usable() returns true exactly when the failure cache
\* has no entry for the service and the authentication key, or the entry
\* has neither the error flag nor the timed-out flag and an unreachable
\* count below 3; with both flags clear the answer is false exactly from a
\* count of 3 on.
C21_UsableIffNoFailure ==
    /\ last.op = "intro_point_is_usable"
       => (last.ret <=> IpfcUsable(ipfc, last.sid, last.auth))
    /\ \A k \in DOMAIN ipfc :
           (~ipfc[k].error /\ ~ipfc[k].timed_out)
           => (intro_point_is_usable(ipfc, k[1], IP(k[2], "e1", "l1", TRUE))
               <=> ipfc[k].unreachable_count < 3)

\* The intro point was just found unusable with nothing against it but an
\* unreachable count of exactly 3.
C21_Witness ==
    /\ last.op = "intro_point_is_usable"
    /\ ~last.ret
    /\ <<last.sid, last.auth>> \in DOMAIN ipfc
    /\ ~ipfc[<<last.sid, last.auth>>].error
    /\ ~ipfc[<<last.sid, last.auth>>].timed_out
    /\ ipfc[<<last.sid, last.auth>>].unreachable_count = 3

\* The intro points of the cached descriptor of the service that are usable
\* by the failure cache and translate to an extend_info_t, as indices.
SelectableIntroPoints(sid) ==
    IF sid \notin DOMAIN cache THEN {}
    ELSE {i \in 1..Len(cache[sid]) :
              /\ IpfcUsable(ipfc, sid, cache[sid][i].auth_key)
              /\ cache[sid][i].lspecs_ok}

\* C22: client_get_random_intro() returns nothing when the descriptor is
\* missing; what it returns is made from an intro point of the descriptor
\* that is usable by the failure cache and translates to an extend_info_t;
\* and when the descriptor has such an intro point outside ExcludeNodes, it
\* returns an intro point outside ExcludeNodes.
C22_RandomIntroSelection ==
    last.op = "client_get_random_intro"
    => /\ last.sid \notin DOMAIN cache => last.ei = NoEI
       /\ last.ei # NoEI
          => \E i \in SelectableIntroPoints(last.sid) :
                 /\ cache[last.sid][i].auth_key = last.ei.from
                 /\ cache[last.sid][i].legacy_id = last.ei.legacy_id
       /\ (\E i \in SelectableIntroPoints(last.sid) :
               cache[last.sid][i].legacy_id \notin last.excl)
          => (last.ei # NoEI /\ last.ei.legacy_id \notin last.excl)

\* Of two intro points the second is in ExcludeNodes and usable, the first
\* has no failure noted: the first was returned.
C22_Witness ==
    /\ last.op = "client_get_random_intro"
    /\ last.excl = {"l2"}
    /\ SelectableIntroPoints(last.sid) = {1, 2}
    /\ last.ei.from = "a1"
    /\ last.ei.legacy_id = "l1"

\* C23: when the descriptor has usable, translatable intro points and all
\* of them are in ExcludeNodes, client_get_random_intro() returns nothing
\* with StrictNodes set and one of those excluded intro points with
\* StrictNodes unset; with StrictNodes set it never returns an intro point
\* of ExcludeNodes.
C23_StrictNodes ==
    last.op = "client_get_random_intro"
    => /\ (/\ SelectableIntroPoints(last.sid) # {}
           /\ \A i \in SelectableIntroPoints(last.sid) :
                  cache[last.sid][i].legacy_id \in last.excl)
          => IF last.strict THEN last.ei = NoEI
             ELSE \E i \in SelectableIntroPoints(last.sid) :
                      /\ cache[last.sid][i].legacy_id \in last.excl
                      /\ cache[last.sid][i].auth_key = last.ei.from
                      /\ cache[last.sid][i].legacy_id = last.ei.legacy_id
       /\ (last.strict /\ last.ei # NoEI) => last.ei.legacy_id \notin last.excl

\* Both intro points are usable and in ExcludeNodes, StrictNodes is unset,
\* and an excluded one was returned.
C23_Witness ==
    /\ last.op = "client_get_random_intro"
    /\ ~last.strict
    /\ last.excl = {"l1", "l2"}
    /\ SelectableIntroPoints(last.sid) = {1, 2}
    /\ last.ei # NoEI
    /\ last.ei.legacy_id \in last.excl

(***************************************************************************)
(* Properties of the streams and of the cell handlers.                     *)
(***************************************************************************)
\* C24: when hs_client_desc_has_arrived() runs for a service whose
\* descriptor is in the cache, every stream of the service that waited for
\* the descriptor is marked for close with RESOLVEFAILED when the descriptor
\* has no usable intro point, and otherwise waits for a circuit, with its
\* three timestamps set to the time of the call and flagged as pending;
\* afterwards no stream of the service that is not marked for close waits
\* for the descriptor.
C24_DescArrivalWakesStreams ==
    [][(last'.op = "desc_has_arrived" /\ last'.sid \in DOMAIN cache')
       => /\ \A t \in ParkedStreams(last'.sid) :
                 IF ~hs_client_any_intro_points_usable(
                         ipfc, last'.sid, cache'[last'.sid])
                 THEN /\ streams'[t].marked
                      /\ streams'[t].reason = END_STREAM_REASON_RESOLVEFAILED
                 ELSE /\ ~streams'[t].marked
                      /\ streams'[t].state = AP_CONN_STATE_CIRCUIT_WAIT
                      /\ streams'[t].timestamp_created = TIME_DESC_ARRIVED
                      /\ streams'[t].timestamp_last_read_allowed = TIME_DESC_ARRIVED
                      /\ streams'[t].timestamp_last_write_allowed = TIME_DESC_ARRIVED
                      /\ streams'[t].pending
          /\ \A t \in StreamIds :
                 (/\ streams'[t].sid = last'.sid
                  /\ streams'[t].state = AP_CONN_STATE_RENDDESC_WAIT)
                 => streams'[t].marked]_vars

\* A descriptor just arrived for the service of both streams: they wait for
\* a circuit, pending, with fresh timestamps.
C24_Witness ==
    /\ last.op = "desc_has_arrived"
    /\ last.sid \in DOMAIN cache
    /\ \A t \in FetchStreamIds :
           /\ streams[t].sid = last.sid
           /\ streams[t].state = AP_CONN_STATE_CIRCUIT_WAIT
           /\ streams[t].pending
           /\ ~streams[t].marked
           /\ streams[t].timestamp_created = TIME_DESC_ARRIVED

\* What C25 promises of the memory of recently queried HSDirs: the entries
\* for the blinded key of the service in the current time period are gone,
\* the others are kept.
RequestsOfServicePurged ==
    hsReqs' = {r \in hsReqs : r[1] # BlindedKey(last'.sid, period)}

C26_RefetchLeavesStreams ==
    [][(/\ last'.op = "refetch"
        /\ last'.ret \in {FETCH_MISSING_INFO, FETCH_PENDING, FETCH_HAVE_DESC,
                          FETCH_LAUNCHED})
       => /\ streams' = streams
          /\ \A t \in ParkedStreams(last'.sid) :
                 /\ streams'[t].state = AP_CONN_STATE_RENDDESC_WAIT
                 /\ ~streams'[t].marked]_vars

\* A fetch was just launched for a service with a stream waiting for the
\* descriptor, and the stream still waits.
C26_Witness ==
    /\ last.op = "refetch"
    /\ last.ret = FETCH_LAUNCHED
    /\ ParkedStreams(last.sid) # {}
    /\ InFlightFetches(last.sid) # {}

\* C27: a RENDEZVOUS2 cell on a rendezvous circuit whose purpose is neither
\* REND_READY nor REND_READY_INTRO_ACKED marks the circuit for close with
\* reason TORPROTOCOL, returns a negative value and installs no end-to-end
\* keys; the purpose stays what it was.
C27_UnexpectedRendezvous2 ==
    [][(/\ last'.op = "receive_rendezvous2"
        /\ rend.purpose \notin {C_REND_READY, C_REND_READY_INTRO_ACKED})
       => /\ rend'.marked
          /\ rend'.reason = REASON_TORPROTOCOL
          /\ last'.ret < 0
          /\ rend'.e2e = rend.e2e
          /\ rend'.purpose = rend.purpose]_vars

\* A RENDEZVOUS2 cell with a good MAC was just refused on a circuit that was
\* already joined.
C27_Witness ==
    /\ last.op = "receive_rendezvous2"
    /\ last.ret = -1
    /\ last.mac_ok
    /\ rend.purpose = C_REND_JOINED
    /\ rend.marked
    /\ rend.reason = REASON_TORPROTOCOL
    /\ rend.e2e # NoKeys

\* C28: a RENDEZVOUS_ESTABLISHED cell on a rendezvous circuit in
\* ESTABLISH_REND puts it in REND_READY and returns 0, without marking it
\* for close; on a circuit of any other purpose it marks the circuit for
\* close with reason TORPROTOCOL, returns -1 and leaves the purpose as it was.
C28_RendezvousEstablished ==
    [][last'.op = "receive_rendezvous_acked"
       => IF rend.purpose = C_ESTABLISH_REND
          THEN /\ rend'.purpose = C_REND_READY
               /\ last'.ret = 0
               /\ ~rend'.marked
          ELSE /\ rend'.marked
               /\ rend'.reason = REASON_TORPROTOCOL
               /\ last'.ret = -1
               /\ rend'.purpose = rend.purpose]_vars

\* A second RENDEZVOUS_ESTABLISHED cell was just refused on a circuit that
\* was ready.
C28_Witness ==
    /\ last.op = "receive_rendezvous_acked"
    /\ last.ret = -1
    /\ rend.purpose = C_REND_READY
    /\ rend.marked
    /\ rend.reason = REASON_TORPROTOCOL

(***************************************************************************)
(* Decoding a descriptor: hs_client_decode_descriptor().                   *)
(***************************************************************************)
\* *desc == NULL: no descriptor object.
NoDescriptor == [intro_points |-> "NULL", signing_key_cert |-> "NULL"]

\* A signing-key certificate: the key that signed it and whether it has
\* expired at approx_time().
Certificates == [signed_by : {BlindedKey(s, tp) : s \in Services, tp \in 0..MaxPeriod},
                 expired : BOOLEAN]

\* The encoded descriptors (desc_str) a directory may answer with: text the
\* parser accepts or not, with its intro points and its certificate.
EncodedDescriptors ==
    [parse_ok : BOOLEAN, intro_points : FetchDescriptors, cert : Certificates]

\* hs_desc_decode_descriptor(): 0 and a newly allocated descriptor, or a
\* negative value and *desc set to NULL.
hs_desc_decode_descriptor(desc_str) ==
    IF desc_str.parse_ok
    THEN [ret |-> 0,
          desc |-> [intro_points |-> desc_str.intro_points,
                    signing_key_cert |-> desc_str.cert]]
    ELSE [ret |-> -1, desc |-> NoDescriptor]

\* tor_cert_checksig(cert, key, now).
tor_cert_checksig(cert, key) ==
    IF cert.signed_by = key /\ ~cert.expired THEN 0 ELSE -1

\* hs_client_decode_descriptor(): "err:" returns -1 and leaves *desc as the
\* parser set it.
hs_client_decode_descriptor(w, desc_str, sid) ==
    LET blinded_pubkey == BlindedKey(sid, w.period)
        r == hs_desc_decode_descriptor(desc_str)
    IN  IF r.ret < 0 THEN [w |-> w, ret |-> -1, desc |-> r.desc]
        ELSE IF tor_cert_checksig(r.desc.signing_key_cert, blinded_pubkey) < 0
             THEN [w |-> w, ret |-> -1, desc |-> r.desc]
             ELSE [w |-> w, ret |-> 0, desc |-> r.desc]

\* The directory subsystem hands an answer to hs_client_decode_descriptor().
DecodeDescriptor(sid, desc_str) ==
    LET r == hs_client_decode_descriptor(World, desc_str, sid)
    IN  Apply(r.w,
              [op |-> "decode_descriptor", sid |-> sid, desc_str |-> desc_str,
               ret |-> r.ret, desc |-> r.desc],
              mon)

\* Answers for either service are decoded while descriptors of one service
\* come and go in the cache and the time period changes.
NextDecode ==
    \/ \E sid \in Services, desc_str \in EncodedDescriptors :
           DecodeDescriptor(sid, desc_str)
    \/ \E sid \in CircServices, desc \in FetchDescriptors : DescArrived(sid, desc)
    \/ \E sid \in CircServices : CacheRemove(sid)
    \/ TimePeriodChanges

SpecDecode == Init /\ [][NextDecode]_vars

\* C29: hs_client_decode_descriptor() returns 0 only if the parser accepted
\* the text and the signing-key certificate verifies under the blinded key
\* of the service in the current time period; every failure returns a
\* negative value with the output descriptor NULL, and the cache is left as
\* it was.
C29_DecodeDescriptor ==
    [][last'.op = "decode_descriptor"
       => /\ last'.ret = 0
             => /\ last'.desc_str.parse_ok
                /\ tor_cert_checksig(last'.desc_str.cert,
                                     BlindedKey(last'.sid, period)) = 0
          /\ last'.ret # 0
             => /\ last'.ret < 0
                /\ last'.desc = NoDescriptor
          /\ cache' = cache]_vars

\* One stream of one service, its descriptor fetches and its circuit pair:
\* what hs_client_purge_state() finds when NEWNYM arrives.
PurgeStreamIds == {StreamOrder[1]}
PurgeDescriptors == {DescTwo}
NextPurge ==
    \/ \E t \in PurgeStreamIds, sid \in CircServices : NewStream(t, sid)
    \/ \E sid \in CircServices : Refetch(sid)
    \/ \E sid \in CircServices, desc \in PurgeDescriptors : DescArrived(sid, desc)
    \/ PurgeState
    \/ \E sid \in CircServices : LaunchIntro(sid)
    \/ \E sid \in CircServices : LaunchRend(sid)
    \/ IntroCircOpened
    \/ RendCircOpened
    \/ ReceiveRendezvousAcked
    \/ SendIntroduce1
    \/ \E status \in AckStatuses : ReceiveIntroduceAck(status)
    \/ \E cell \in Rendezvous2Cells(rend) : ReceiveRendezvous2(cell)

SpecPurge == Init /\ [][NextPurge]_vars

\* C30: hs_client_purge_state() leaves the intro-point failure cache, the
\* client descriptor cache and the memory of recently queried HSDirs empty,
\* and neither changes the purpose of the introduction or the rendezvous
\* circuit nor marks one of them for close.
C30_PurgeState ==
    [][last'.op = "purge_state"
       => /\ ipfc' = EmptyMap
          /\ cache' = EmptyMap
          /\ hsReqs' = {}
          /\ intro'.purpose = intro.purpose
          /\ intro'.marked = intro.marked
          /\ rend'.purpose = rend.purpose
          /\ rend'.marked = rend.marked]_vars

\* NEWNYM arrived while all three caches held something and the rendezvous
\* circuit was joined: the caches are empty and the circuit is as it was.
C30_Witness ==
    /\ last.op = "purge_state"
    /\ last.purged.ipfc /\ last.purged.cache /\ last.purged.hsReqs
    /\ ipfc = EmptyMap /\ cache = EmptyMap /\ hsReqs = {}
    /\ rend.purpose = C_REND_JOINED
    /\ ~rend.marked

\* C31: when send_introduce1() returns 0 the intro circuit is in
\* INTRODUCE_ACK_WAIT, the rendezvous ident holds the encryption key of the
\* intro point of the cached descriptor that the intro circuit's
\* authentication key names and that authentication key itself, and neither
\* circuit is marked for close; and the intro circuit enters
\* INTRODUCE_ACK_WAIT in no other step.
C31_Introduce1Sent ==
    [][/\ (last'.op = "send_introduce1" /\ last'.ret = 0)
          => /\ intro'.purpose = C_INTRODUCE_ACK_WAIT
             /\ intro'.auth = intro.auth
             /\ intro.sid \in DOMAIN cache
             /\ LET desc == cache[intro.sid]
                    i == find_desc_intro_point_by_ident(intro.auth, desc)
                IN  /\ i # 0
                    /\ rend'.enc = desc[i].enc_key
             /\ rend'.auth = intro'.auth
             /\ ~intro'.marked
             /\ ~rend'.marked
       /\ (intro.purpose # C_INTRODUCE_ACK_WAIT
           /\ intro'.purpose = C_INTRODUCE_ACK_WAIT)
          => (last'.op = "send_introduce1" /\ last'.ret = 0)]_vars

\* INTRODUCE1 was just sent to the second intro point of the descriptor.
C31_Witness ==
    /\ last.op = "send_introduce1"
    /\ last.ret = 0
    /\ intro.purpose = C_INTRODUCE_ACK_WAIT
    /\ intro.auth = "a2"
    /\ rend.auth = "a2"
    /\ rend.enc = "e2"
    /\ ~intro.marked
    /\ ~rend.marked

\* The place of a stream in the list of connections.
StreamRank(t) == CHOOSE i \in 1..Len(StreamOrder) : StreamOrder[i] = t

\* In the pass that just ended, a refetch made for a stream listed before t
\* closed the streams of the service of t.
ClosedEarlierInPass(t) ==
    \E j \in 1..Len(last'.calls) :
        /\ StreamRank(last'.calls[j].t) < StreamRank(t)
        /\ last'.calls[j].sid = streams[t].sid
        /\ streams'[last'.calls[j].t].marked

\* C32: in a pass of retry_all_socks_conn_waiting_for_desc() a refetch is made
\* only for streams that wait for a descriptor and are not marked for close
\* when their turn comes: once a refetch closed the waiting streams of a
\* service, no further refetch is made for that service in the pass, and
\* every other listed stream still gets its refetch.
C32_MarkedStreamsSkipped ==
    [][last'.op = "dir_info_changed"
       => /\ \A i \in 1..Len(last'.calls) :
                 /\ last'.calls[i].t \in ParkedStreams(last'.calls[i].sid)
                 /\ \A j \in 1..Len(last'.calls) :
                        i < j => StreamRank(last'.calls[i].t)
                                 < StreamRank(last'.calls[j].t)
          /\ \A t \in StreamIds :
                 (t \in ParkedStreams(streams[t].sid) /\ streams[t].sid # NoIdent)
                 => ((\E i \in 1..Len(last'.calls) : last'.calls[i].t = t)
                     <=> ~ClosedEarlierInPass(t))]_vars

\* Two streams of one service were listed; the refetch for the first closed
\* both and no refetch was made for the second.
C32_Witness ==
    /\ last.op = "dir_info_changed"
    /\ last.conns = <<"t1", "t2">>
    /\ streams["t1"].sid = streams["t2"].sid
    /\ Len(last.calls) = 1
    /\ last.calls[1].t = "t1"
    /\ streams["t1"].marked /\ streams["t2"].marked

\* C33: when client_rendezvous_circ_has_opened() has run, the circuit is in
\* the circuit map under its cookie if and only if ESTABLISH_RENDEZVOUS was
\* sent and the circuit is not marked for close; for a rendezvous point that
\* is a known node without v3 support no cell is sent and the circuit is not
\* registered.
C33_RendCircRegistered ==
    [][last'.op = "rend_circ_has_opened"
       => /\ rend'.registered <=> (last'.sent /\ ~rend'.marked)
          /\ rend'.registered => rend'.cookie = rend.cookie
          /\ ~last'.rp_ok => (~last'.sent /\ ~rend'.registered)]_vars

\* The circuit opened to a known node without v3 rendezvous support: nothing
\* was sent and the circuit is not registered.
C33_Witness ==
    /\ last.op = "rend_circ_has_opened"
    /\ ~last.rp_ok
    /\ ~last.sent
    /\ rend.st = "open"
    /\ ~rend.registered

\* C34: a descriptor fetch that was in flight when hs_client_purge_state()
\* ran never completes: no directory connection older than the NEWNYM hands
\* a descriptor to the cache and to hs_client_desc_has_arrived().
C34_NoFetchSurvivesNewnym ==
    [][\A d \in DOMAIN dirConns :
           (dirConns[d].newnym /\ d \notin DOMAIN dirConns')
           => last'.op # "desc_has_arrived"]_vars

DescSameRelay == <<IP("a1", "e1", "l1", TRUE), IP("a2", "e2", "l1", TRUE)>>
IntroKeyDescriptors == {DescTwo, DescSameRelay}

\* One stream of one service and its circuit pair, under descriptors whose
\* intro points are on two relays or on one.
NextIntroKey ==
    \/ \E t \in PurgeStreamIds, sid \in CircServices : NewStream(t, sid)
    \/ \E sid \in CircServices, desc \in IntroKeyDescriptors : DescArrived(sid, desc)
    \/ \E sid \in CircServices : CacheRemove(sid)
    \/ \E sid \in CircServices : LaunchIntro(sid)
    \/ \E sid \in CircServices : LaunchRend(sid)
    \/ IntroCircOpened
    \/ RendCircOpened
    \/ ReceiveRendezvousAcked
    \/ SendIntroduce1
    \/ \E status \in AckStatuses : ReceiveIntroduceAck(status)

SpecIntroKey == Init /\ [][NextIntroKey]_vars

\* The intro point the circuit was built or extended to is still in the
\* cached descriptor, on the relay the circuit ends at.
SelectedIntroPointCached ==
    /\ intro.sid \in DOMAIN cache
    /\ \E i \in 1..Len(cache[intro.sid]) :
           /\ cache[intro.sid][i].auth_key = intro.sel
           /\ cache[intro.sid][i].legacy_id = intro.exit

JustRefetched(sid, status) ==
    \/ /\ last.op = "refetch"
       /\ last.sid = sid
       /\ last.ret = status
    \/ /\ last.op = "send_introduce1"
       /\ intro.sid = sid
       /\ last.refetch = status
    \/ /\ last.op = "dir_info_changed"
       /\ \E i \in 1..Len(last.calls) :
              /\ last.calls[i].sid = sid
              /\ last.calls[i].status = status
              /\ \A j \in 1..Len(last.calls) :
                     j > i => last.calls[j].sid # sid

\* C37: when a callback that ordered a refetch for a service returns, every
\* stream of the service that waits for the descriptor and is not marked for
\* close has a descriptor fetch in flight for it, or the refetch returned
\* MISSING_INFO; so no stream is left parked after a refetch that returned
\* NO_HSDIRS, NOT_ALLOWED or ERROR, those re-parked by send_introduce1()
\* included.
C37_ParkedStreamsHaveFetch ==
    \A sid \in Services, status \in FetchStatuses :
        (JustRefetched(sid, status) /\ ParkedStreams(sid) # {})
        => \/ InFlightFetches(sid) # {}
           \/ status = FETCH_MISSING_INFO

(***************************************************************************)
(* The loop of refusals and re-extensions.                                 *)
(***************************************************************************)
\* The descriptor of the service arrives again, the same as the cached one.
DescArrivedUnchanged(sid, desc) ==
    /\ IF sid \in DOMAIN cache THEN cache[sid] = desc ELSE TRUE
    /\ DescArrived(sid, desc)

\* One stream of one service and its circuit pair under a descriptor that
\* never changes, a failure cache that never expires and no NEWNYM; circuits
\* marked for close are freed and the stream driver launches new ones.
NextNack ==
    \/ \E t \in PurgeStreamIds, sid \in CircServices : NewStream(t, sid)
    \/ \E sid \in CircServices, desc \in IntroKeyDescriptors :
           DescArrivedUnchanged(sid, desc)
    \/ \E sid \in CircServices : LaunchIntro(sid)
    \/ \E sid \in CircServices : LaunchRend(sid)
    \/ IntroCircOpened
    \/ RendCircOpened
    \/ ReceiveRendezvousAcked
    \/ SendIntroduce1
    \/ \E status \in AckStatuses : ReceiveIntroduceAck(status)
    \/ IntroCircFreed
    \/ RendCircFreed

SpecNack == Init /\ [][NextNack]_vars

\* A step in which a refusal is handled: an INTRODUCE_ACK with a failure
\* status on a circuit that waits for its acknowledgement.
NackHandled ==
    /\ last'.op = "receive_introduce_ack"
    /\ last'.status \in {ACK_FAILURE, ACK_BADFMT, ACK_NORELAY}
    /\ intro.purpose = C_INTRODUCE_ACK_WAIT
    /\ last' # last \/ ipfc' # ipfc \/ intro' # intro

\* The failure cache holds an error for the intro point.
IntroPointErrored(c, sid, auth) ==
    /\ <<sid, auth>> \in DOMAIN c
    /\ c[<<sid, auth>>].error

DistinctRelays ==
    \A sid \in DOMAIN cache :
        \A i, j \in 1..Len(cache[sid]) :
            cache[sid][i].legacy_id = cache[sid][j].legacy_id => i = j

UnexpectedAck ==
    /\ last'.op = "receive_introduce_ack"
    /\ intro.purpose # C_INTRODUCE_ACK_WAIT

\* What an unexpected INTRODUCE_ACK leaves alone: the failure cache, the
\* hop the intro circuit ends at, and the rendezvous circuit; the status
\* returned is negative.
UnexpectedAckRefused ==
    /\ last'.ret < 0
    /\ ipfc' = ipfc
    /\ last'.ext = "none"
    /\ intro'.exit = intro.exit
    /\ intro'.st = intro.st
    /\ intro'.purpose = intro.purpose
    /\ rend' = rend

\* C39, as stated: an INTRODUCE_ACK on an intro circuit whose purpose is not
\* INTRODUCE_ACK_WAIT leaves the circuit marked for close with reason
\* TORPROTOCOL, returns a negative status, and changes neither the failure
\* cache nor the path of the circuit nor the rendezvous circuit.
C39_Original ==
    [][UnexpectedAck
       => /\ intro'.marked
          /\ intro'.reason = REASON_TORPROTOCOL
          /\ UnexpectedAckRefused]_vars

\* C39, amended: the circuit is marked with reason TORPROTOCOL when it was
\* not marked for close before; a circuit already marked, as every
\* acknowledged one is, keeps the reason it was closed with.
C39_UnexpectedAckRefused ==
    [][UnexpectedAck
       => /\ intro'.marked
          /\ intro'.reason = IF intro.marked THEN intro.reason
                             ELSE REASON_TORPROTOCOL
          /\ UnexpectedAckRefused]_vars

\* An INTRODUCE_ACK was just refused on a circuit that had not sent its
\* INTRODUCE1 yet.
C39_Witness ==
    /\ last.op = "receive_introduce_ack"
    /\ last.ret = -1
    /\ intro.purpose = C_INTRODUCING
    /\ intro.marked
    /\ intro.reason = REASON_TORPROTOCOL

(***************************************************************************)
(* Streams of two services and a stream without a v3 service identity,     *)
(* under the three operations that walk the list of AP connections for one *)
(* service.                                                                *)
(***************************************************************************)
\* An AP connection with edge_conn->hs_ident == NULL is accepted and waits:
\* for a descriptor or for a circuit.
NewStreamNoIdent(t, state) ==
    /\ streams[t] = NoStream
    /\ Apply([World EXCEPT !.streams[t] =
                 [NoStream EXCEPT !.state = state,
                                  !.pending = (state = AP_CONN_STATE_CIRCUIT_WAIT)]],
             EnvLast, mon)

NextStreams ==
    \/ NewStream(StreamOrder[1], "s1")
    \/ NewStream(StreamOrder[2], "s2")
    \/ \E state \in {AP_CONN_STATE_RENDDESC_WAIT, AP_CONN_STATE_CIRCUIT_WAIT} :
           NewStreamNoIdent(StreamOrder[3], state)
    \/ \E sid \in Services \ CircServices : Refetch(sid)
    \/ \E sid \in Services : DescArrived(sid, DescTwo)
    \/ \E sid \in CircServices : CacheRemove(sid)
    \/ \E sid \in CircServices : LaunchIntro(sid)
    \/ \E sid \in CircServices : LaunchRend(sid)
    \/ IntroCircOpened
    \/ RendCircOpened
    \/ ReceiveRendezvousAcked
    \/ SendIntroduce1

SpecStreams == Init /\ [][NextStreams]_vars

\* The step is one of the three operations, and the service it is for.
StreamOpOfService ==
    last'.op \in {"refetch", "send_introduce1", "desc_has_arrived"}

ServiceConcerned ==
    IF last'.op = "send_introduce1" THEN intro.sid ELSE last'.sid

\* C40: refetch(S), send_introduce1 on a circuit of S and the arrival of a
\* descriptor of S leave every stream whose service identity differs from S
\* as it was, and with it every stream that has no v3 service identity.
C40_StreamsOfOtherServicesUntouched ==
    [][StreamOpOfService
       => \A t \in StreamIds :
              (streams[t].sid = NoIdent \/ streams[t].sid # ServiceConcerned)
                  => streams'[t] = streams[t]]_vars

\* send_introduce1 on a circuit of s1 sent its stream back to wait for the
\* descriptor, next to a stream of s2 and a stream without identity that
\* wait for a circuit.
C40_Witness ==
    /\ last.op = "send_introduce1"
    /\ last.ret = -1
    /\ intro.sid = "s1"
    /\ streams["t1"].sid = "s1"
    /\ streams["t1"].state = AP_CONN_STATE_RENDDESC_WAIT
    /\ ~streams["t1"].marked
    /\ streams["t2"].sid = "s2"
    /\ streams["t2"].state = AP_CONN_STATE_CIRCUIT_WAIT
    /\ ~streams["t2"].marked
    /\ streams["t3"].sid = NoIdent
    /\ streams["t3"].state = AP_CONN_STATE_CIRCUIT_WAIT
    /\ ~streams["t3"].marked

(***************************************************************************)
(* The circuit pair of one service with one stream: descriptors arrive,    *)
(* circuits are launched, open, carry cells and are freed once marked.     *)
(***************************************************************************)
NextPair ==
    \/ \E t \in PurgeStreamIds, sid \in CircServices : NewStream(t, sid)
    \/ \E sid \in CircServices, desc \in CircDescriptors : DescArrived(sid, desc)
    \/ \E sid \in CircServices : LaunchIntro(sid)
    \/ \E sid \in CircServices : LaunchRend(sid)
    \/ IntroCircOpened
    \/ RendCircOpened
    \/ ReceiveRendezvousAcked
    \/ SendIntroduce1
    \/ \E status \in AckStatuses : ReceiveIntroduceAck(status)
    \/ \E cell \in Rendezvous2Cells(rend) : ReceiveRendezvous2(cell)
    \/ IntroCircFreed
    \/ RendCircFreed

SpecPair == Init /\ [][NextPair]_vars

(***************************************************************************)
(* The fetch scheduler of two services and their streams: requests are     *)
(* accepted, descriptors are fetched or the fetch fails, and streams       *)
(* marked for close are freed.                                             *)
(***************************************************************************)
NextSched ==
    \/ \E t \in FetchStreamIds : \E sid \in StreamServices(t) : NewStream(t, sid)
    \/ \E t \in FetchStreamIds : StreamFreed(t)
    \/ \E sid \in Services : Refetch(sid)
    \/ DirInfoChanged
    \/ \E d \in DirIds, desc \in FetchDescriptors : DescFetched(d, desc)
    \/ \E d \in DirIds : DirFetchFailed(d)
    \/ \E d \in DirIds : DirConnProgress(d)

SpecSched == Init /\ [][NextSched]_vars

====
